---- MODULE Spec2Model ----
(***************************************************************************)
(* State-machine model of the NeuroML2 reader of moose-core                *)
(* (python/moose/neuroml2/reader.py): NML2Reader.createMorphology, the     *)
(* membrane-property and species importers, and the helpers they use.      *)
(*                                                                         *)
(* Conventions                                                             *)
(*  - A Python value that may be None is a sequence of length <= 1:        *)
(*    None is << >> and a value v is << v >>.                              *)
(*  - A Python list or an insertion-ordered dict is a sequence; a dict is  *)
(*    a sequence of [key, val] records in insertion order.                 *)
(*  - Engine lengths are integers counted in units of 0.5e-6 m, so that    *)
(*    lunit (1e-6 m) is 2 and the mean of two diameters is exact.          *)
(*  - Other physical quantities are exact numbers num/den * pi^pi.         *)
(*  - A raised exception is recorded in err and moves pc to "failed";      *)
(*    whatever the handler had written before raising stays written.       *)
(***************************************************************************)
EXTENDS Integers, Sequences, FiniteSets, TLC

VARIABLES
    doc,                  \* the parsed document handed to the reader
    pc,                   \* position of the reader in its run
    err,                  \* name of the exception that ended the run, or "none"
    elements,             \* the engine's object tree: path -> fields
    msgs,                 \* the engine's connections, in creation order
    id_to_comp,           \* createMorphology's result: segment id -> compartment path
    seg_id_to_comp_name,  \* reader.seg_id_to_comp_name: cell id -> (segment id -> name)
    nml_segs_to_moose,    \* reader.nml_segs_to_moose: segment id -> compartment path
    cell_to_sg,           \* reader._cell_to_sg: cell id -> dict(group id -> segment list)
    id_to_ionChannel,     \* reader.id_to_ionChannel: channel id -> channel definition
    proto_chans,          \* reader.proto_chans: channel id -> prototype path
    proto_pools,          \* reader.proto_pools: concentration model id -> prototype path
    includes,             \* reader.includes: included readers (their proto_pools)
    chanIdx,              \* importChannelsToCell: index of the next declaration
    specIdx,              \* importSpecies: index of the next species
    paths_to_chan_elements, \* reader.paths_to_chan_elements: gate path -> element path
    cellIdx,              \* read: index of the cell being built
    lastOp,               \* what the last step did (which branch of which handler)
    proto_cells,          \* reader.proto_cells: cell id -> prototype path
    cells_in_populations, \* reader.cells_in_populations: population id -> (index -> path)
    pop_to_cell_type,     \* reader.pop_to_cell_type: population id -> cell id
    widgets,              \* the DynamicMorphologyViewerWidget objects: name -> fields
    timer                 \* DynamicMorphologyViewerWidget._timer, shared by the class

\* the reader's population tables
netVars == << cells_in_populations, pop_to_cell_type >>

\* the state of the viewer widgets (python/moogli/__init__.py)
viewerVars == << widgets, timer >>

\* the state of the reader and of the engine
readerVars == << doc, pc, err, elements, msgs, id_to_comp, seg_id_to_comp_name,
                 nml_segs_to_moose, cell_to_sg, id_to_ionChannel, proto_chans,
                 proto_pools, includes, chanIdx, specIdx, paths_to_chan_elements,
                 cellIdx, lastOp, proto_cells, cells_in_populations,
                 pop_to_cell_type >>

vars == << readerVars, viewerVars >>

\* the reader's state but err, where a call on a widget leaves its exception
readerOther == << doc, pc, elements, msgs, id_to_comp, seg_id_to_comp_name,
                  nml_segs_to_moose, cell_to_sg, id_to_ionChannel, proto_chans,
                  proto_pools, includes, chanIdx, specIdx, paths_to_chan_elements,
                  cellIdx, lastOp, proto_cells, cells_in_populations,
                  pop_to_cell_type >>

(***************************************************************************)
(* Bounds of the model                                                     *)
(***************************************************************************)
MaxSegs == 2
MaxGroups == 2
MaxDens == 2
MaxSpecies == 1
MaxPops == 2
MaxSize == 2
MaxInputs == 1
NestDepth == 2
MaxGates == 2
MaxWidgets == 2
MaxCalls == 3

(***************************************************************************)
(* Generic helpers                                                         *)
(***************************************************************************)
None == << >>
Some(v) == << v >>
IsNone(o) == Len(o) = 0
Val(o) == o[1]

Range(s) == { s[i] : i \in 1..Len(s) }

\* Python dict as a sequence of [key, val] in insertion order
DictKeys(d) == { d[i].key : i \in 1..Len(d) }
DictHas(d, k) == \E i \in 1..Len(d) : d[i].key = k
DictIdx(d, k) == CHOOSE i \in 1..Len(d) : d[i].key = k
DictGet(d, k) == d[DictIdx(d, k)].val
DictSet(d, k, v) ==
    IF DictHas(d, k)
    THEN [d EXCEPT ![DictIdx(d, k)] = [key |-> k, val |-> v]]
    ELSE Append(d, [key |-> k, val |-> v])

\* all sequences over S of length 0..n without repeated elements
RECURSIVE SeqsNoRep(_, _)
SeqsNoRep(S, n) ==
    IF n = 0 THEN { << >> }
    ELSE LET shorter == SeqsNoRep(S, n - 1)
             longest == { t \in shorter : Len(t) = n - 1 }
         IN  shorter \cup UNION { { Append(t, x) : x \in S \ Range(t) } : t \in longest }

(***************************************************************************)
(* Exact numbers  num/den * pi^pi * sqrt(sq)                               *)
(* (den = 0 marks a field never assigned; sq has no square factor)         *)
(***************************************************************************)
Q(n, d, p) == [num |-> n, den |-> d, pi |-> p, sq |-> 1]
Unset == Q(0, 0, 0)
QInt(n) == Q(n, 1, 0)

\* integer square root (floor)
RECURSIVE IsqrtFrom(_, _)
IsqrtFrom(n, r) == IF (r + 1) * (r + 1) > n THEN r ELSE IsqrtFrom(n, r + 1)
Isqrt(n) == IsqrtFrom(n, 0)

\* the largest r <= from whose square divides n (n > 0)
RECURSIVE SquarePart(_, _)
SquarePart(n, from) ==
    IF from <= 1 THEN 1
    ELSE IF n % (from * from) = 0 THEN from
    ELSE SquarePart(n, from - 1)

\* sqrt(n) for an integer n >= 0, exact: r * sqrt(n / r^2)
Sqrt(n) ==
    IF n = 0 THEN QInt(0)
    ELSE LET r == SquarePart(n, Isqrt(n))
         IN  [num |-> r, den |-> 1, pi |-> 0, sq |-> n \div (r * r)]

QMul(a, b) ==
    LET r == SquarePart(a.sq * b.sq, Isqrt(a.sq * b.sq))
    IN  [num |-> a.num * b.num * r, den |-> a.den * b.den, pi |-> a.pi + b.pi,
         sq |-> (a.sq * b.sq) \div (r * r)]
\* sum and difference of two numbers with the same power of pi and the same root
QAdd(a, b) == [num |-> a.num * b.den + b.num * a.den, den |-> a.den * b.den,
               pi |-> a.pi, sq |-> a.sq]
QSub(a, b) == [num |-> a.num * b.den - b.num * a.den, den |-> a.den * b.den,
               pi |-> a.pi, sq |-> a.sq]
QIsZero(a) == a.num = 0 /\ a.den # 0
\* a / b for b # 0, the sign kept in the numerator: 1/sqrt(s) = sqrt(s)/s
QDiv(a, b) ==
    QMul(a, IF b.num < 0
            THEN [num |-> -b.den, den |-> (-b.num) * b.sq, pi |-> -b.pi, sq |-> b.sq]
            ELSE [num |-> b.den, den |-> b.num * b.sq, pi |-> -b.pi, sq |-> b.sq])
QEq(a, b) ==
    /\ a.den # 0 /\ b.den # 0
    /\ a.num * b.den = b.num * a.den
    /\ (a.num = 0 \/ (a.pi = b.pi /\ a.sq = b.sq))
QNeg(a) == a.den # 0 /\ ((a.num < 0 /\ a.den > 0) \/ (a.num > 0 /\ a.den < 0))
QPos(a) == a.den # 0 /\ ((a.num > 0 /\ a.den > 0) \/ (a.num < 0 /\ a.den < 0))
pi == Q(1, 1, 1)

(***************************************************************************)
(* The engine's object tree (moose), as the reader uses it                 *)
(***************************************************************************)
lunit == 2

libPath == "/library"

\* a freshly created element: every field at "never assigned"
NewElement(cls, parent, name) ==
    [cls |-> cls, parent |-> parent, name |-> name,
     x0 |-> 0, y0 |-> 0, z0 |-> 0, x |-> 0, y |-> 0, z |-> 0,
     length |-> QInt(0), diameter |-> 0,
     Rm |-> Unset, Em |-> Unset, Cm |-> Unset, initVm |-> Unset, Ra |-> Unset,
     Gbar |-> Unset, Ek |-> Unset,
     CaBasal |-> Unset, tau |-> Unset, B |-> Unset, thick |-> Unset,
     firstDelay |-> Unset, firstWidth |-> Unset, firstLevel |-> Unset,
     secondDelay |-> Unset,
     gates |-> << >>]

PathOf(parent, name) == parent \o "/" \o name

\* moose.<Class>(path): creates the element, or wraps the one already at that path
CreateElement(els, cls, parent, name) ==
    IF PathOf(parent, name) \in DOMAIN els THEN els
    ELSE els @@ (PathOf(parent, name) :> NewElement(cls, parent, name))

\* moose.connect(src, srcField, dst, dstField): one more message
Connect(ms, src, srcField, dst, dstField) ==
    Append(ms, [src |-> src, srcField |-> srcField, dst |-> dst, dstField |-> dstField])

\* q is root or lies below it in the tree
RECURSIVE IsUnder(_, _, _)
IsUnder(els, q, root) ==
    IF q = root THEN TRUE
    ELSE IF q \notin DOMAIN els THEN FALSE
    ELSE IsUnder(els, els[q].parent, root)

Subtree(els, root) == { q \in DOMAIN els : IsUnder(els, q, root) }

\* the path of q once the subtree of root is re-rooted at newroot
RECURSIVE Rebase(_, _, _, _)
Rebase(els, q, root, newroot) ==
    IF q = root THEN newroot
    ELSE PathOf(Rebase(els, els[q].parent, root, newroot), els[q].name)

\* moose.copy(proto, parent, name): an independent copy of the element and of
\* everything under it, placed at parent/name, field values included
CopyTree(els, root, parent, name) ==
    LET newroot == PathOf(parent, name)
        sub == Subtree(els, root)
        Orig(p) == CHOOSE q \in sub : Rebase(els, q, root, newroot) = p
    IN  [p \in { Rebase(els, q, root, newroot) : q \in sub } |->
            IF p = newroot THEN [els[root] EXCEPT !.parent = parent, !.name = name]
            ELSE [els[Orig(p)] EXCEPT
                    !.parent = Rebase(els, els[Orig(p)].parent, root, newroot)]] @@ els

\* moose.copy also copies the messages that lie inside the copied subtree
CopyTreeMsgs(ms, els, root, parent, name) ==
    LET newroot == PathOf(parent, name)
        sub == Subtree(els, root)
        Inside(m) == m.src \in sub /\ m.dst \in sub
        inner == SelectSeq(ms, Inside)
    IN  ms \o [k \in 1..Len(inner) |->
                 [inner[k] EXCEPT !.src = Rebase(els, inner[k].src, root, newroot),
                                  !.dst = Rebase(els, inner[k].dst, root, newroot)]]

(***************************************************************************)
(* Utility functions of reader.py                                          *)
(***************************************************************************)
\* variant: the cylinder formula also for length 0
sarea_CylinderOnly(comp) == QMul(QMul(comp.length, QInt(comp.diameter)), pi)

\* sarea(comp)
sarea(comp) ==
    IF QPos(comp.length)
    THEN QMul(QMul(comp.length, QInt(comp.diameter)), pi)
    ELSE QMul(QInt(comp.diameter * comp.diameter), pi)

\* setRm(comp, condDensity): the new Rm, or ZeroDivisionError
setRmRaises(comp, condDensity) == QIsZero(QMul(condDensity, sarea(comp)))
setRm(comp, condDensity) ==
    [comp EXCEPT !.Rm = QDiv(QInt(1), QMul(condDensity, sarea(comp)))]

\* setEk(comp, erev): comp.setEm(erev)
setEk(comp, erev) == [comp EXCEPT !.Em = erev]

\* the dedup loop at the end of getSegments: first occurrence of each id kept
RECURSIVE UniqueSegs(_)
UniqueSegs(segs) ==
    IF Len(segs) = 0 THEN << >>
    ELSE LET front == UniqueSegs(SubSeq(segs, 1, Len(segs) - 1))
             s == segs[Len(segs)]
         IN  IF s \in Range(front) THEN front ELSE Append(front, s)

RECURSIVE ConcatVals(_)
ConcatVals(d) ==
    IF Len(d) = 0 THEN << >>
    ELSE ConcatVals(SubSeq(d, 1, Len(d) - 1)) \o d[Len(d)].val

SegIds(segments) == [i \in 1..Len(segments) |-> segments[i].id]

\* getSegments(nmlcell, component, sg_to_segments): [err, segs]
getSegments(nmlcell, component, sg_to_segments) ==
    LET sg == component.segment_groups
    IN  IF IsNone(sg)
        THEN [err |-> "none", segs |-> UniqueSegs(SegIds(nmlcell.morphology.segments))]
        ELSE IF Val(sg) = "all"
        THEN [err |-> "none", segs |-> UniqueSegs(ConcatVals(sg_to_segments))]
        ELSE IF DictHas(sg_to_segments, Val(sg))
        THEN [err |-> "none", segs |-> UniqueSegs(DictGet(sg_to_segments, Val(sg)))]
        ELSE [err |-> "KeyError", segs |-> << >>]

(***************************************************************************)
(* NML2Reader.createMorphology                                             *)
(***************************************************************************)
\* id_to_segment = dict([(seg.id, seg) for seg in segments])
RECURSIVE IdToSegment(_)
IdToSegment(segments) ==
    IF Len(segments) = 0 THEN << >>
    ELSE DictSet(IdToSegment(SubSeq(segments, 1, Len(segments) - 1)),
                 segments[Len(segments)].id, segments[Len(segments)])

\* the compartment name of a segment: its name, or comp_<id> when it has none
CompName(seg) ==
    IF IsNone(seg.name) THEN "comp_" \o ToString(seg.id) ELSE Val(seg.name)

CompClass(symmetric) == IF symmetric THEN "SymCompartment" ELSE "Compartment"

\* first loop: one compclass(path) call per segment, filling id_to_comp and
\* seg_id_to_comp_name[cell.id]
RECURSIVE CreateComps(_, _, _, _)
CreateComps(segments, cellpath, cls, els) ==
    IF Len(segments) = 0
    THEN [els |-> els, id_to_comp |-> << >>, names |-> << >>]
    ELSE LET prev == CreateComps(SubSeq(segments, 1, Len(segments) - 1), cellpath, cls, els)
             seg == segments[Len(segments)]
         IN  [els |-> CreateElement(prev.els, cls, cellpath, CompName(seg)),
              id_to_comp |-> DictSet(prev.id_to_comp, seg.id, PathOf(cellpath, CompName(seg))),
              names |-> DictSet(prev.names, seg.id, CompName(seg))]

\* try: parent = id_to_segment[segment.parent.segments] except AttributeError: None
ResolveParent(id_to_segment, segment) ==
    IF IsNone(segment.parent) THEN [err |-> "none", parent |-> None]
    ELSE IF DictHas(id_to_segment, Val(segment.parent))
    THEN [err |-> "none", parent |-> Some(DictGet(id_to_segment, Val(segment.parent)))]
    ELSE [err |-> "KeyError", parent |-> None]

\* variant: the parent's distal point wins over an explicit proximal point
ResolveProximal_ParentFirst(segment, parent) ==
    IF ~IsNone(parent) THEN [err |-> "none", p0 |-> Some(Val(parent).distal)]
    ELSE IF ~IsNone(segment.proximal) THEN [err |-> "none", p0 |-> segment.proximal]
    ELSE [err |-> "Exception", p0 |-> None]

\* p0 = segment.proximal, or parent.distal, or raise
ResolveProximal(segment, parent) ==
    IF ~IsNone(segment.proximal) THEN [err |-> "none", p0 |-> segment.proximal]
    ELSE IF ~IsNone(parent) THEN [err |-> "none", p0 |-> Some(Val(parent).distal)]
    ELSE [err |-> "Exception", p0 |-> None]

\* the coordinates, length and diameter written on the compartment
SetGeometry(comp, p0, p1) ==
    LET x0 == p0.x * lunit
        y0 == p0.y * lunit
        z0 == p0.z * lunit
        x1 == p1.x * lunit
        y1 == p1.y * lunit
        z1 == p1.z * lunit
    IN  [comp EXCEPT !.x0 = x0, !.y0 = y0, !.z0 = z0, !.x = x1, !.y = y1, !.z = z1,
                     !.length = Sqrt((x1 - x0) * (x1 - x0) + (y1 - y0) * (y1 - y0)
                                     + (z1 - z0) * (z1 - z0)),
                     !.diameter = ((p0.diameter + p1.diameter) * lunit) \div 2]

\* variant: the test on the mode inverted
AxialSrc_Inverted(symmetric) == IF symmetric THEN "axial" ELSE "proximal"

AxialSrc(symmetric) == IF symmetric THEN "proximal" ELSE "axial"
AxialDst(symmetric) == IF symmetric THEN "distal" ELSE "raxial"

\* one iteration of "for segid, comp in id_to_comp.items()" on state st
PlaceSegment(id_to_segment, i2c, k, symmetric, st) ==
    LET segment == DictGet(id_to_segment, i2c[k].key)
        comp == i2c[k].val
        pr == ResolveParent(id_to_segment, segment)
        px == ResolveProximal(segment, pr.parent)
        segs1 == DictSet(st.segs, segment.id, comp)
    IN  IF pr.err # "none" THEN [st EXCEPT !.err = pr.err]
        ELSE IF px.err # "none" THEN [st EXCEPT !.segs = segs1, !.err = px.err]
        ELSE [st EXCEPT
                !.segs = segs1,
                !.els = [st.els EXCEPT ![comp] = SetGeometry(@, Val(px.p0), segment.distal)],
                !.msgs = IF ~IsNone(pr.parent)
                         THEN Connect(st.msgs, comp, AxialSrc(symmetric),
                                      DictGet(i2c, Val(pr.parent).id), AxialDst(symmetric))
                         ELSE st.msgs]

\* second loop, stopping at the first exception
RECURSIVE PlaceSegments(_, _, _, _, _)
PlaceSegments(id_to_segment, i2c, k, symmetric, st) ==
    IF k > Len(i2c) \/ st.err # "none" THEN st
    ELSE PlaceSegments(id_to_segment, i2c, k + 1, symmetric,
                       PlaceSegment(id_to_segment, i2c, k, symmetric, st))

\* first pass over the segment groups: "[id_to_segment[m.segments] for m in
\* sg.members]", a KeyError for a member that is no segment of the cell
RECURSIVE DirectMembers(_, _)
DirectMembers(groups, id_to_segment) ==
    IF Len(groups) = 0 THEN [err |-> "none", d |-> << >>]
    ELSE LET front == DirectMembers(SubSeq(groups, 1, Len(groups) - 1), id_to_segment)
             sg == groups[Len(groups)]
         IN  IF front.err # "none" THEN front
             ELSE IF \E i \in 1..Len(sg.members) : ~DictHas(id_to_segment, sg.members[i])
             THEN [front EXCEPT !.err = "KeyError"]
             ELSE [front EXCEPT !.d = DictSet(front.d, sg.id, sg.members)]

\* "for inc in sg.includes: for cseg in sg_to_segments[inc]: append" for one
\* group.  An include that is no key raises KeyError.  When the group includes
\* itself the inner loop runs over the list it appends to: with a non-empty
\* list it never ends (the list grows until memory is exhausted)
RECURSIVE AppendIncludes(_, _, _)
AppendIncludes(r, gid, incs) ==
    IF Len(incs) = 0 \/ r.err # "none" THEN r
    ELSE IF ~DictHas(r.d, incs[1]) THEN [r EXCEPT !.err = "KeyError"]
    ELSE IF incs[1] = gid /\ Len(DictGet(r.d, gid)) > 0
    THEN [r EXCEPT !.err = "MemoryError"]
    ELSE AppendIncludes([r EXCEPT !.d = DictSet(r.d, gid, DictGet(r.d, gid)
                                                          \o DictGet(r.d, incs[1]))],
                        gid, Tail(incs))

\* second pass over the segment groups, in declaration order
RECURSIVE ExpandIncludes(_, _)
ExpandIncludes(r, groups) ==
    IF Len(groups) = 0 \/ r.err # "none" THEN r
    ELSE LET sg == groups[1]
             r1 == IF DictHas(r.d, sg.id) THEN r
                   ELSE [r EXCEPT !.d = DictSet(r.d, sg.id, << >>)]
         IN  ExpandIncludes(AppendIncludes(r1, sg.id, sg.includes), Tail(groups))

\* variant: "all" is set to the full segment list even when it is declared
AddAll_Overwrite(d, segments) == DictSet(d, "all", SegIds(segments))

\* the synthesized "all" group
AddAll(d, segments) ==
    IF DictHas(d, "all") THEN d ELSE DictSet(d, "all", SegIds(segments))

\* sg_to_segments as createMorphology leaves it
SgToSegments(morphology) ==
    LET expanded == ExpandIncludes(DirectMembers(morphology.segment_groups,
                                                 IdToSegment(morphology.segments)),
                                   morphology.segment_groups)
    IN  [err |-> expanded.err, d |-> AddAll(expanded.d, morphology.segments)]

(***************************************************************************)
(* Physical quantities: moose.neuroml2.units.SI                            *)
(***************************************************************************)
\* the SI value of one unit of a schema quantity
UnitFactor(unit) ==
    CASE unit = "S_per_m2" -> Q(1, 1, 0)
      [] unit = "mS_per_cm2" -> Q(10, 1, 0)
      [] unit = "V" -> Q(1, 1, 0)
      [] unit = "mV" -> Q(1, 1000, 0)
      [] unit = "F_per_m2" -> Q(1, 1, 0)
      [] unit = "uF_per_cm2" -> Q(1, 100, 0)
      [] unit = "ohm_m" -> Q(1, 1, 0)
      [] unit = "kohm_cm" -> Q(10, 1, 0)
      [] unit = "s" -> Q(1, 1, 0)
      [] unit = "ms" -> Q(1, 1000, 0)
      [] unit = "A" -> Q(1, 1, 0)
      [] unit = "nA" -> Q(1, 1000000000, 0)
      [] unit = "mM" -> Q(1, 1, 0)
      [] unit = "half_um" -> Q(1, 1, 0)
      [] unit = "K" -> Q(1, 1, 0)

\* SI(quantity): magnitude times the unit's factor
SI(q) == QMul(QInt(q.mag), UnitFactor(q.unit))

(***************************************************************************)
(* Ion-channel prototypes: importIonChannels, createHHChannel,             *)
(* createPassiveChannel, isPassiveChan                                     *)
(***************************************************************************)
\* isPassiveChan(chan); every channel definition carries a gates attribute
isPassiveChan(chan) ==
    IF chan.type = "ionChannelPassive" THEN TRUE
    ELSE Len(chan.gate_hh_rates) + Len(chan.gates) = 0

GateNames == << "gateX", "gateY", "gateZ" >>

\* _is_standard_nml_rate(rate)
StandardRates == { "HHExpLinearRate", "HHExpRate", "HHSigmoidRate", "HHSigmoidVariable" }

\* _getTemperature(): self.network is assigned by read only when the document
\* has a network
getTemperature ==
    IF Len(doc.networks) = 0 THEN [err |-> "AttributeError", value |-> Unset]
    ELSE IF doc.networks[1].type = "networkWithTemperature"
    THEN [err |-> "none", value |-> SI(Val(doc.networks[1].temperature))]
    ELSE [err |-> "none", value |-> QInt(0)]

\* calculateRateFn(ratefn, ...): the table sampled from one rate function, by
\* rate_fn_map for a standard rate, by the document's component type of that
\* name otherwise; without such a component type the method returns None
calculateRateFn(ratefn) ==
    IF ratefn.type \in StandardRates
    THEN [err |-> "none", table |-> Some([table_of |-> ratefn, by |-> "rate_fn_map"])]
    ELSE IF \E i \in 1..Len(doc.ComponentType) : doc.ComponentType[i] = ratefn.type
    THEN IF getTemperature.err # "none"
         THEN [err |-> getTemperature.err, table |-> None]
         ELSE [err |-> "none",
               table |-> Some([table_of |-> ratefn, by |-> "evaluate_component"])]
    ELSE [err |-> "none", table |-> None]

\* hasattr(ngate, 'time_course') and hasattr(ngate, 'steady_state'): the gates of
\* chan.gates carry both attributes, those of chan.gate_hh_rates carry neither
HasTauInfAttrs(ngate) == ngate.kind = "gate"

\* natural numbers of any size: sequences of digits to the base 1024, the
\* lowest digit first, without leading zeros; n < 2^30
BigDigits(n) ==
    IF n = 0 THEN << >>
    ELSE IF n < 1024 THEN << n >>
    ELSE IF n < 1024 * 1024 THEN << n % 1024, n \div 1024 >>
    ELSE << n % 1024, (n \div 1024) % 1024, n \div (1024 * 1024) >>

\* x * m + y + carry digit by digit, for x and y of one length and m < 2^21:
\* the digits and the carry out, the lower half before the upper
RECURSIVE BigStep(_, _, _, _)
BigStep(x, m, y, carry) ==
    IF Len(x) = 0 THEN [digits |-> << >>, carry |-> carry]
    ELSE IF Len(x) = 1
    THEN [digits |-> << (x[1] * m + y[1] + carry) % 1024 >>,
          carry |-> (x[1] * m + y[1] + carry) \div 1024]
    ELSE LET half == Len(x) \div 2
             Upper(low) ==
                 LET high == BigStep(SubSeq(x, half + 1, Len(x)), m,
                                     SubSeq(y, half + 1, Len(y)), low.carry)
                 IN  [digits |-> low.digits \o high.digits, carry |-> high.carry]
         IN  Upper(BigStep(SubSeq(x, 1, half), m, SubSeq(y, 1, half), carry))

\* x * m + y
BigSum(x, m, y) ==
    LET Whole(r) == r.digits \o BigDigits(r.carry)
    IN  Whole(BigStep(x, m, y, 0))

\* x * b for 0 < b < 2^31, a wide b as b = upper * 2^20 + lower
BigMul(x, b) ==
    IF b < 2 ^ 21 THEN BigSum(x, b, [i \in 1..Len(x) |-> 0])
    ELSE LET Lower(upper) ==
                 BigSum(x \o [i \in 1..Len(upper) - Len(x) |-> 0], b % 2 ^ 20, upper)
         IN  Lower(<< 0, 0 >> \o BigSum(x, b \div 2 ^ 20, [i \in 1..Len(x) |-> 0]))

\* x * b^k
RECURSIVE BigPow(_, _, _)
BigPow(x, b, k) ==
    IF k = 0 THEN x
    ELSE IF k = 1 THEN BigMul(x, b)
    ELSE LET Rest(done) ==
                 IF Len(done) = 0 THEN done ELSE BigPow(done, b, k - k \div 2)
         IN  Rest(BigPow(x, b, k \div 2))

RECURSIVE Log2Floor(_)
Log2Floor(n) == IF n < 2 THEN 0 ELSE 1 + Log2Floor(n \div 2)

RECURSIVE Gcd(_, _)
Gcd(a, b) == IF b = 0 THEN a ELSE Gcd(b, a % b)

\* the largest j >= i with b^j < 2^21, for b^i < 2^21
RECURSIVE Chunk(_, _)
Chunk(b, i) == IF b ^ i <= (2 ^ 21 - 1) \div b THEN Chunk(b, i + 1) ELSE i

\* math.pow(x, y) raises OverflowError when the result is beyond the doubles:
\* |x|^(n/d) >= 2^1024, that is |x|^n >= 2^(1024 d) with n/d in lowest terms,
\* for a whole x of magnitude b and y = n/d with d > 0.  The powers of two on
\* either side of b decide most cases; the others are decided on the digits of
\* b^n, which is multiplied up by the largest power of b below 2^21 at a time
PowOverflows(b, n, d) ==
    LET Decide(num, den) ==
            IF num * Log2Floor(b) >= 1024 * den THEN TRUE
            ELSE IF num * (Log2Floor(b) + 1) < 1024 * den THEN FALSE
            ELSE LET j == IF b < 2 ^ 21 THEN Chunk(b, 1) ELSE 1
                     Beyond(power) ==
                         \/ Len(power) > (1024 * den) \div 10 + 1
                         \/ /\ Len(power) = (1024 * den) \div 10 + 1
                            /\ power[Len(power)] >= 2 ^ ((1024 * den) % 10)
                 IN  Beyond(BigPow(BigPow(<< 1 >>, b ^ j, num \div j), b, num % j))
    IN  IF b < 2 \/ n <= 0 THEN FALSE
        ELSE Decide(n \div Gcd(n, d), d \div Gcd(n, d))

\* q10_scale when the gate has no q10 settings
NoScale == [form |-> "const", value |-> QInt(1)]

\* the q10 block: q10_scale of the gate, or the exception it raises
Q10Scale(ngate) ==
    IF IsNone(ngate.q10_settings) THEN [err |-> "none", scale |-> NoScale]
    ELSE LET q10 == Val(ngate.q10_settings)
         IN  IF q10.type = "q10Fixed"
             THEN [err |-> "none",
                   scale |-> [form |-> "const", value |-> QInt(q10.fixed_q10)]]
             ELSE IF q10.type = "q10ExpTemp"
             THEN IF getTemperature.err # "none"
                  THEN [err |-> getTemperature.err, scale |-> NoScale]
                  ELSE LET base == QInt(q10.q10_factor)
                           exponent == QDiv(QSub(getTemperature.value,
                                                 SI(q10.experimental_temp)),
                                            QInt(10))
                           den == IF exponent.den < 0 THEN -exponent.den
                                  ELSE exponent.den
                           num == IF exponent.den < 0 THEN -exponent.num
                                  ELSE exponent.num
                           \* math.pow(x, y) raises ValueError for x = 0 with
                           \* y < 0 and for x < 0 with y not an integer
                           raises == \/ QIsZero(base) /\ QNeg(exponent)
                                     \/ QNeg(base) /\ exponent.num % den # 0
                           magnitude == IF base.num < 0 THEN -base.num ELSE base.num
                       IN  IF raises THEN [err |-> "ValueError", scale |-> NoScale]
                           ELSE IF PowOverflows(magnitude, num, den)
                           THEN [err |-> "OverflowError", scale |-> NoScale]
                           ELSE [err |-> "none",
                                 scale |-> [form |-> "pow", base |-> base,
                                            exponent |-> exponent]]
             ELSE [err |-> "Exception", scale |-> NoScale]

\* one table of a gate as a branch writes it, with the scale and the inputs it
\* was computed from ("A_rates": scale * alpha; "B_rates": scale * (alpha + beta);
\* "A_tau_inf": scale * (inf / tau); "B_tau_inf": scale * (1 / tau);
\* "A_inf_rates", "B_inf_rates": the same with tau = 1 / (alpha + beta))
GateTables(form, scale, alpha, beta, tau, inf) ==
    [form |-> form, scale |-> scale, alpha |-> alpha, beta |-> beta, tau |-> tau,
     inf |-> inf]

\* "if (fwd is not None) and (rev is not None)": binds alpha and beta
RatesBranch(ngate, loc) ==
    IF loc.err # "none" THEN loc
    ELSE IF ~IsNone(ngate.forward_rate) /\ ~IsNone(ngate.reverse_rate)
    THEN LET Fill(bound, alpha, beta) ==
                 IF IsNone(alpha) THEN [bound EXCEPT !.err = "TypeError"]
                 ELSE IF IsNone(beta)
                 THEN [bound EXCEPT
                         !.err = "TypeError",
                         !.tables.A = Some(GateTables("A_rates", loc.scale, alpha,
                                                      None, None, None))]
                 ELSE [bound EXCEPT
                         !.tables.A = Some(GateTables("A_rates", loc.scale, alpha,
                                                      None, None, None)),
                         !.tables.B = Some(GateTables("B_rates", loc.scale, alpha,
                                                      beta, None, None))]
             Bind(alpha, beta) ==
                 IF alpha.err # "none" THEN [loc EXCEPT !.err = alpha.err]
                 ELSE IF beta.err # "none"
                 THEN [loc EXCEPT !.err = beta.err, !.alpha = Some(alpha.table)]
                 ELSE Fill([loc EXCEPT !.alpha = Some(alpha.table),
                                       !.beta = Some(beta.table)],
                           alpha.table, beta.table)
         IN  Bind(calculateRateFn(Val(ngate.forward_rate)),
                  calculateRateFn(Val(ngate.reverse_rate)))
    ELSE loc

\* "if hasattr(...) and time_course is not None and steady_state is not None"
TauInfBranch(ngate, loc) ==
    IF loc.err # "none" THEN loc
    ELSE IF /\ HasTauInfAttrs(ngate)
            /\ ~IsNone(ngate.time_course) /\ ~IsNone(ngate.steady_state)
    THEN LET Fill(tau, inf) ==
                 IF tau.err # "none" THEN [loc EXCEPT !.err = tau.err]
                 ELSE IF inf.err # "none" THEN [loc EXCEPT !.err = inf.err]
                 ELSE IF IsNone(tau.table) \/ IsNone(inf.table)
                 THEN [loc EXCEPT !.err = "TypeError"]
                 ELSE [loc EXCEPT
                         !.tables.A = Some(GateTables("A_tau_inf", loc.scale, None,
                                                      None, tau.table, inf.table)),
                         !.tables.B = Some(GateTables("B_tau_inf", loc.scale, None,
                                                      None, tau.table, None))]
         IN  Fill(calculateRateFn(Val(ngate.time_course)),
                  calculateRateFn(Val(ngate.steady_state)))
    ELSE loc

\* "if hasattr(ngate,'steady_state') and (ngate.time_course is None) and
\* (ngate.steady_state is not None)"
SteadyStateOnly(ngate) ==
    /\ HasTauInfAttrs(ngate)
    /\ IsNone(ngate.time_course) /\ ~IsNone(ngate.steady_state)

\* the steady-state-only branch: tau = 1 / (alpha + beta) reads the locals alpha
\* and beta, whatever bound them last; unbound locals raise UnboundLocalError
InfBranch(ngate, loc) ==
    IF loc.err # "none" THEN loc
    ELSE IF SteadyStateOnly(ngate)
    THEN IF IsNone(loc.alpha) \/ IsNone(loc.beta)
         THEN [loc EXCEPT !.err = "UnboundLocalError"]
         ELSE LET Fill(inf) ==
                      IF inf.err # "none" THEN [loc EXCEPT !.err = inf.err]
                      ELSE IF IsNone(inf.table) THEN [loc EXCEPT !.err = "TypeError"]
                      ELSE [loc EXCEPT
                              !.tables.A = Some(GateTables("A_inf_rates", loc.scale,
                                                           Val(loc.alpha),
                                                           Val(loc.beta), None,
                                                           inf.table)),
                              !.tables.B = Some(GateTables("B_inf_rates", loc.scale,
                                                           Val(loc.alpha),
                                                           Val(loc.beta), None,
                                                           None))]
              IN  Fill(calculateRateFn(Val(ngate.steady_state)))
    ELSE loc

\* the body of "for ngate, mgate in zip(all_gates, mgates)" for gate k: the
\* power is read (ngate.instance, which no gate has, for the third gate), the
\* gate path recorded, q10_scale computed, and the three branches run in order.
\* mgate is gate k of the channel element: a table no branch writes keeps what
\* the element held (nothing on a fresh element, the tables of an earlier
\* definition when the path existed)
GateStep(chanId, ngate, k, loc) ==
    IF k = 3 THEN [loc EXCEPT !.err = "AttributeError"]
    ELSE LET Recorded(q10) ==
                [loc EXCEPT
                   !.paths = DictSet(loc.paths, chanId \o "/" \o ngate.id,
                                     chanId \o "/" \o GateNames[k]),
                   !.scale = q10.scale,
                   !.err = q10.err,
                   !.tables = IF k <= Len(loc.gates) THEN loc.gates[k]
                              ELSE [name |-> GateNames[k], A |-> None, B |-> None]]
             Kept(branched) ==
                [branched EXCEPT
                   !.gates = IF k <= Len(loc.gates)
                             THEN [loc.gates EXCEPT ![k] = branched.tables]
                             ELSE Append(loc.gates, branched.tables)]
         IN  Kept(InfBranch(ngate,
                            TauInfBranch(ngate,
                                         RatesBranch(ngate, Recorded(Q10Scale(ngate))))))

\* the loop of createHHChannel over zip(all_gates, mgates), from gate k on
RECURSIVE RecordGatePaths(_, _, _, _)
RecordGatePaths(loc, chanId, all_gates, k) ==
    IF k > Len(all_gates) \/ k > Len(GateNames) \/ loc.err # "none" THEN loc
    ELSE RecordGatePaths(GateStep(chanId, all_gates[k], k, loc), chanId, all_gates,
                         k + 1)

\* createHHChannel(chan): the prototype element (the one already at the path,
\* with its gates, when there is one), then the assertion on the number of
\* gates, then its gate paths and gate tables; alpha and beta are locals of the
\* call, unbound at its start (a bound local holds an Optional table:
\* calculateRateFn may have returned None)
createHHChannel(chan, st) ==
    LET Gated(made, looped) ==
            [st EXCEPT !.els = [made EXCEPT ![PathOf(libPath, chan.id)].gates
                                               = looped.gates],
                       !.paths = looped.paths,
                       !.err = looped.err]
        Checked(made) ==
            IF Len(chan.gate_hh_rates) > Len(GateNames)
            THEN [st EXCEPT !.els = made, !.err = "AssertionError"]
            ELSE Gated(made,
                       RecordGatePaths([paths |-> st.paths, err |-> "none",
                                        alpha |-> None, beta |-> None,
                                        gates |-> made[PathOf(libPath, chan.id)].gates,
                                        scale |-> NoScale,
                                        tables |-> [name |-> "", A |-> None,
                                                    B |-> None]],
                                       chan.id, chan.gates \o chan.gate_hh_rates, 1))
    IN  Checked(CreateElement(st.els, "HHChannel", libPath, chan.id))

\* createPassiveChannel(chan)
createPassiveChannel(chan, st) ==
    [st EXCEPT !.els = CreateElement(st.els, "Leakage", libPath, chan.id)]

\* the body of the loop of importIonChannels for one channel definition
importIonChannel(chan, st) ==
    LET Registered(made) ==
            IF made.err # "none" THEN made
            ELSE [made EXCEPT !.chans = DictSet(made.chans, chan.id, chan),
                              !.protos = DictSet(made.protos, chan.id,
                                                 PathOf(libPath, chan.id))]
    IN  Registered(IF chan.type = "ionChannelHH" THEN createHHChannel(chan, st)
                   ELSE IF isPassiveChan(chan) THEN createPassiveChannel(chan, st)
                   ELSE createHHChannel(chan, st))

RECURSIVE importIonChannels(_, _)
importIonChannels(chans, st) ==
    IF Len(chans) = 0 \/ st.err # "none" THEN st
    ELSE importIonChannels(Tail(chans), importIonChannel(chans[1], st))

(***************************************************************************)
(* Membrane properties: importCapacitances, importChannelsToCell,          *)
(* copyChannel, importInitMembPotential                                    *)
(***************************************************************************)
\* "for seg in <list>: comp = self.nml_segs_to_moose[seg.id]; comp.<field> = ..."
\* (each update reads only the compartment's own geometry, so applying it once
\* to every compartment of the list is what the loop leaves)
SetOnSegments(els, segs, segIds, Update(_)) ==
    LET targets == { DictGet(segs, segIds[i]) : i \in 1..Len(segIds) }
    IN  [p \in DOMAIN els |-> IF p \in targets THEN Update(els[p]) ELSE els[p]]

\* importCapacitances: comp.Cm = sarea(comp) * cm over sg_to_segments[group]
RECURSIVE importCapacitances(_, _, _, _)
importCapacitances(list, sg_to_segments, segs, st) ==
    IF Len(list) = 0 \/ st.err # "none" THEN st
    ELSE LET specific_cm == list[1]
             cm == SI(specific_cm.value)
             SetCm(comp) == [comp EXCEPT !.Cm = QMul(sarea(comp), cm)]
         IN  IF IsNone(specific_cm.segment_groups)
                \/ ~DictHas(sg_to_segments, Val(specific_cm.segment_groups))
             THEN [st EXCEPT !.err = "KeyError"]
             ELSE importCapacitances(Tail(list), sg_to_segments, segs,
                    [st EXCEPT !.els = SetOnSegments(st.els, segs,
                        DictGet(sg_to_segments, Val(specific_cm.segment_groups)), SetCm)])

\* importInitMembPotential: comp.initVm = initv over sg_to_segments[group]
RECURSIVE importInitMembPotential(_, _, _, _)
importInitMembPotential(list, sg_to_segments, segs, st) ==
    IF Len(list) = 0 \/ st.err # "none" THEN st
    ELSE LET imp == list[1]
             initv == SI(imp.value)
             SetInitVm(comp) == [comp EXCEPT !.initVm = initv]
         IN  IF IsNone(imp.segment_groups)
                \/ ~DictHas(sg_to_segments, Val(imp.segment_groups))
             THEN [st EXCEPT !.err = "KeyError"]
             ELSE importInitMembPotential(Tail(list), sg_to_segments, segs,
                    [st EXCEPT !.els = SetOnSegments(st.els, segs,
                        DictGet(sg_to_segments, Val(imp.segment_groups)), SetInitVm)])

\* the prototype copyChannel finds: local proto_chans first, then the included
\* readers (where the declaration is read through its ionChannel attribute)
RECURSIVE FindInIncludedChans(_, _, _)
FindInIncludedChans(incl, chdens, k) ==
    IF k > Len(incl) THEN [err |-> "none", proto |-> None]
    ELSE IF ~chdens.has_camel THEN [err |-> "AttributeError", proto |-> None]
    ELSE IF DictHas(incl[k].proto_chans, chdens.ion_channel)
    THEN [err |-> "none", proto |-> Some(DictGet(incl[k].proto_chans, chdens.ion_channel))]
    ELSE FindInIncludedChans(incl, chdens, k + 1)

FindProtoChan(protos, incl, chdens) ==
    IF DictHas(protos, chdens.ion_channel)
    THEN [err |-> "none", proto |-> Some(DictGet(protos, chdens.ion_channel))]
    ELSE FindInIncludedChans(incl, chdens, 1)

\* str.replace(old, new): every occurrence of old, left to right (old not empty)
RECURSIVE Replace(_, _, _)
Replace(s, old, new) ==
    IF Len(s) < Len(old) THEN s
    ELSE IF SubSeq(s, 1, Len(old)) = old
    THEN new \o Replace(SubSeq(s, Len(old) + 1, Len(s)), old, new)
    ELSE SubSeq(s, 1, 1) \o Replace(SubSeq(s, 2, Len(s)), old, new)

\* the rewriting of paths_to_chan_elements in copyChannel: for every key present
\* before the loop, key and value with "<ion_channel>/" replaced by "<id>/"
\* wherever it occurs, stored in the table the loop is changing
RECURSIVE RewritePaths(_, _, _, _, _)
RewritePaths(paths, snapshot, k, chanId, orig) ==
    IF k > Len(snapshot) THEN paths
    ELSE LET key == snapshot[k].key
             val == DictGet(paths, key)
         IN  RewritePaths(DictSet(paths, Replace(key, chanId \o "/", orig \o "/"),
                                  Replace(val, chanId \o "/", orig \o "/")),
                          snapshot, k + 1, chanId, orig)

\* variant: the fields are set on the prototype
ChannelToSet_Prototype(proto, clone) == proto

\* the element whose Gbar and Ek copyChannel sets: the clone
ChannelToSet(proto, clone) == clone

\* copyChannel(chdens, comp, condDensity, erev)
copyChannel(chdens, comp, condDensity, erev, protos, incl, st) ==
    LET found == FindProtoChan(protos, incl, chdens)
        clone == PathOf(comp, chdens.id)
    IN  IF found.err # "none" THEN [st EXCEPT !.err = found.err]
        ELSE IF IsNone(found.proto) THEN [st EXCEPT !.err = "Exception"]
        ELSE LET chan == ChannelToSet(Val(found.proto), clone)
                 Set(copied, links) ==
                     [st EXCEPT
                        !.els = [copied EXCEPT
                                   ![chan].Gbar = QMul(sarea(copied[comp]), condDensity),
                                   ![chan].Ek = erev],
                        !.paths = RewritePaths(st.paths, st.paths, 1, chdens.ion_channel,
                                               chdens.id),
                        !.msgs = Connect(links, clone, "channel", comp, "channel")]
             IN  Set(CopyTree(st.els, Val(found.proto), comp, chdens.id),
                     CopyTreeMsgs(st.msgs, st.els, Val(found.proto), comp, chdens.id))

\* "for seg in segments: setRm(comp, condDensity); setEk(comp, erev)"
RECURSIVE SetPassive(_, _, _, _, _)
SetPassive(segIds, segs, condDensity, erev, st) ==
    IF Len(segIds) = 0 \/ st.err # "none" THEN st
    ELSE LET comp == DictGet(segs, segIds[1])
         IN  IF setRmRaises(st.els[comp], condDensity)
             THEN [st EXCEPT !.err = "ZeroDivisionError"]
             ELSE SetPassive(Tail(segIds), segs, condDensity, erev,
                    [st EXCEPT !.els = [st.els EXCEPT
                        ![comp] = setEk(setRm(@, condDensity), erev)]])

\* "for seg in segments: self.copyChannel(...)"
RECURSIVE CopyChannels(_, _, _, _, _, _, _, _)
CopyChannels(segIds, segs, chdens, condDensity, erev, protos, incl, st) ==
    IF Len(segIds) = 0 \/ st.err # "none" THEN st
    ELSE CopyChannels(Tail(segIds), segs, chdens, condDensity, erev, protos, incl,
                      copyChannel(chdens, DictGet(segs, segIds[1]), condDensity, erev,
                                  protos, incl, st))

\* variant: the KeyError is not caught
OnMissingChannel_Raise(st) == [st EXCEPT !.err = "KeyError"]

\* except KeyError: print(...); continue
OnMissingChannel(st) == [st EXCEPT !.op = "chdens_skipped"]

\* the body of the loop of importChannelsToCell for one declaration
importChannelDensity(nmlcell, chdens, sg_to_segments, segs, chans, protos, incl, st) ==
    LET target == getSegments(nmlcell, chdens, sg_to_segments)
        condDensity == SI(chdens.cond_density)
        erev == SI(chdens.erev)
    IN  IF target.err # "none" THEN [st EXCEPT !.err = target.err]
        ELSE IF ~DictHas(chans, chdens.ion_channel) THEN OnMissingChannel(st)
        ELSE IF isPassiveChan(DictGet(chans, chdens.ion_channel))
        THEN SetPassive(target.segs, segs, condDensity, erev,
                        [st EXCEPT !.op = "chdens_passive"])
        ELSE CopyChannels(target.segs, segs, chdens, condDensity, erev, protos, incl,
                          [st EXCEPT !.op = "chdens_copied"])

(***************************************************************************)
(* Intracellular properties: importAxialResistance, importSpecies,         *)
(* copySpecies; createDecayingPoolConcentrationModel                       *)
(***************************************************************************)
\* xarea(comp)
xarea(comp) == QDiv(QMul(QInt(comp.diameter * comp.diameter), pi), QInt(4))

\* setRa(comp, resistivity) divides by xarea(comp), or by diameter * pi
setRaRaises(comp) == comp.diameter = 0

\* setRa(comp, resistivity): the new Ra
setRa(comp, resistivity) ==
    IF QPos(comp.length)
    THEN [comp EXCEPT !.Ra = QDiv(QMul(resistivity, comp.length), xarea(comp))]
    ELSE [comp EXCEPT !.Ra = QDiv(QMul(resistivity, QInt(8)),
                                  QMul(QInt(comp.diameter), pi))]

\* "for seg in segments: comp = self.nml_segs_to_moose[seg.id]; setRa(comp, value)"
RECURSIVE SetAxial(_, _, _, _)
SetAxial(segIds, segs, value, st) ==
    IF Len(segIds) = 0 \/ st.err # "none" THEN st
    ELSE LET comp == DictGet(segs, segIds[1])
         IN  IF setRaRaises(st.els[comp])
             THEN [st EXCEPT !.err = "ZeroDivisionError"]
             ELSE SetAxial(Tail(segIds), segs, value,
                           [st EXCEPT !.els = [st.els EXCEPT ![comp] = setRa(@, value)]])

RECURSIVE importAxialResistance(_, _, _, _, _)
importAxialResistance(nmlcell, list, sg_to_segments, segs, st) ==
    IF Len(list) = 0 \/ st.err # "none" THEN st
    ELSE LET r == list[1]
             target == getSegments(nmlcell, r, sg_to_segments)
             value == SI(r.value)
         IN  IF target.err # "none" THEN [st EXCEPT !.err = target.err]
             ELSE importAxialResistance(nmlcell, Tail(list), sg_to_segments, segs,
                                        SetAxial(target.segs, segs, value, st))

\* the name createDecayingPoolConcentrationModel gives every prototype: the
\* path is formatted with the builtin id, not with the model's name
PoolProtoName == "<built-in function id>"

\* the baseline constant 5.2e-6, in lowest terms
BaseB == Q(13, 2500000, 0)

\* createDecayingPoolConcentrationModel(concModel): concModel.name is read, the
\* element is made, the model's camel-case attributes are read, the fields set
\* and the prototype registered; then self.nml_concs_to_moose, which __init__
\* never creates, is read
createDecayingPoolConcentrationModel(concModel, st) ==
    LET made == CreateElement(st.els, "CaConc", libPath, PoolProtoName)
        ca == PathOf(libPath, PoolProtoName)
    IN  IF ~concModel.has_name THEN [st EXCEPT !.err = "AttributeError"]
        ELSE IF ~concModel.has_camel
        THEN [st EXCEPT !.els = made, !.err = "AttributeError"]
        ELSE [st EXCEPT
                !.els = [made EXCEPT ![ca].CaBasal = SI(concModel.restingConc),
                                     ![ca].tau = SI(concModel.decayConstant),
                                     ![ca].thick = SI(concModel.shellThickness),
                                     ![ca].B = BaseB],
                !.pools = DictSet(st.pools, concModel.id, ca),
                !.err = "AttributeError"]

RECURSIVE importConcentrationModels(_, _)
importConcentrationModels(models, st) ==
    IF Len(models) = 0 \/ st.err # "none" THEN st
    ELSE importConcentrationModels(Tail(models),
                                   createDecayingPoolConcentrationModel(models[1], st))

\* the key copySpecies looks up: the reference itself (species.concentrationModel),
\* which equals a key of the tables only when it is text, not an object that
\* carries the text as its id; None is no key of any table
PoolKey(species) ==
    IF ~IsNone(species.concentration_model) /\ species.cm_is_key
    THEN species.concentration_model
    ELSE None

\* the prototype copySpecies finds: local proto_pools first, then the included
\* readers
RECURSIVE FindInIncludedPools(_, _, _)
FindInIncludedPools(incl, ref, k) ==
    IF k > Len(incl) THEN None
    ELSE IF ~IsNone(ref) /\ DictHas(incl[k].proto_pools, Val(ref))
    THEN Some(DictGet(incl[k].proto_pools, Val(ref)))
    ELSE FindInIncludedPools(incl, ref, k + 1)

FindProtoPool(pools, incl, species) ==
    IF ~IsNone(PoolKey(species)) /\ DictHas(pools, Val(PoolKey(species)))
    THEN Some(DictGet(pools, Val(PoolKey(species))))
    ELSE FindInIncludedPools(incl, PoolKey(species), 1)

\* the name comp at line 409 of copySpecies: the parameter is called compartment
\* and the module has no global comp
LookupComp(compartment) == [err |-> "NameError", path |-> None]

\* pool.thickness: the reader writes the field thick on its prototypes, and an
\* element has no field thickness unless something else gave it one
HasThickness(pool) == "thickness" \in DOMAIN pool

\* shell volume over which copySpecies divides B
ShellVolume(compartment, pool) ==
    QMul(QMul(pi, compartment.length),
         QMul(QAdd(Q(compartment.diameter, 2, 0), pool.thickness),
              QSub(Q(compartment.diameter, 2, 0), pool.thickness)))

\* lines 409-411 of copySpecies: the copy of the prototype and the rescaling of
\* its B by the shell volume
CloneAndRescale(species, compartment, proto_pool, st) ==
    LET comp == LookupComp(compartment)
    IN  IF comp.err # "none" THEN [st EXCEPT !.err = comp.err]
        ELSE LET pool == PathOf(Val(comp.path), species.id)
                 Rescale(copied, links) ==
                     IF ~HasThickness(copied[pool])
                     THEN [st EXCEPT !.els = copied, !.msgs = links,
                                     !.err = "AttributeError"]
                     ELSE IF QIsZero(ShellVolume(copied[compartment], copied[pool]))
                     THEN [st EXCEPT !.els = copied, !.msgs = links,
                                     !.err = "ZeroDivisionError"]
                     ELSE [st EXCEPT
                             !.msgs = links,
                             !.els = [copied EXCEPT
                                        ![pool].B = QDiv(copied[pool].B,
                                                         ShellVolume(copied[compartment],
                                                                     copied[pool]))]]
             IN  Rescale(CopyTree(st.els, proto_pool, Val(comp.path), species.id),
                         CopyTreeMsgs(st.msgs, st.els, proto_pool, Val(comp.path),
                                      species.id))

\* copySpecies(species, compartment)
copySpecies(species, compartment, pools, incl, st) ==
    IF ~species.has_camel THEN [st EXCEPT !.err = "AttributeError"]
    ELSE LET proto_pool == FindProtoPool(pools, incl, species)
         IN  IF IsNone(proto_pool) THEN [st EXCEPT !.err = "Exception"]
             ELSE CloneAndRescale(species, compartment, Val(proto_pool), st)

RECURSIVE CopySpeciesTo(_, _, _, _, _, _)
CopySpeciesTo(segIds, segs, species, pools, incl, st) ==
    IF Len(segIds) = 0 \/ st.err # "none" THEN st
    ELSE CopySpeciesTo(Tail(segIds), segs, species, pools, incl,
                       copySpecies(species, DictGet(segs, segIds[1]), pools, incl, st))

\* the body of the loop of importSpecies for one species
importOneSpecies(nmlcell, species, sg_to_segments, segs, pools, incl, st) ==
    IF ~IsNone(species.concentration_model) /\ ~species.cm_has_id
    THEN [st EXCEPT !.err = "AttributeError"]
    ELSE IF ~IsNone(species.concentration_model)
            /\ ~DictHas(pools, Val(species.concentration_model))
    THEN [st EXCEPT !.op = "species_skipped"]
    ELSE LET target == getSegments(nmlcell, species, sg_to_segments)
         IN  IF target.err # "none" THEN [st EXCEPT !.err = target.err]
             ELSE CopySpeciesTo(target.segs, segs, species, pools, incl,
                                [st EXCEPT !.op = "species_copied"])

\* importInputs: the inputs container and one PulseGen per pulse generator
RECURSIVE importInputs(_, _)
importInputs(pgs, els) ==
    IF Len(pgs) = 0 THEN CreateElement(els, "Neutral", libPath, "inputs")
    ELSE LET prev == importInputs(SubSeq(pgs, 1, Len(pgs) - 1), els)
             pg_nml == pgs[Len(pgs)]
             pg == PathOf(PathOf(libPath, "inputs"), pg_nml.id)
         IN  [CreateElement(prev, "PulseGen", PathOf(libPath, "inputs"), pg_nml.id)
                EXCEPT ![pg].firstDelay = SI(pg_nml.delay),
                       ![pg].firstWidth = SI(pg_nml.duration),
                       ![pg].firstLevel = SI(pg_nml.amplitude),
                       ![pg].secondDelay = QInt(1000000000)]

(***************************************************************************)
(* Networks: createPopulations, createInputs, getComp, getInput            *)
(***************************************************************************)
\* a Python int and a Python str used as dict keys: equal only when both the
\* type and the text agree
PyInt(n) == [type |-> "int", repr |-> ToString(n)]
PyStr(s) == [type |-> "str", repr |-> s]

\* variant: instances numbered from 1
InstanceName_FromOne(i) == ToString(i + 1)

\* '%s' % (i): the name of instance i
InstanceName(i) == ToString(i)

\* "for i in range(pop.size)" of createPopulations, from index i on
RECURSIVE CopyInstances(_, _, _, _)
CopyInstances(pop, mpop, i, st) ==
    IF i >= pop.size \/ st.err # "none" THEN st
    ELSE LET typed == [st EXCEPT !.ptc = DictSet(st.ptc, pop.id, pop.component)]
         IN  IF ~DictHas(st.cells, pop.component)
             THEN [typed EXCEPT !.err = "KeyError"]
             ELSE LET proto == DictGet(st.cells, pop.component)
                  IN  CopyInstances(pop, mpop, i + 1,
                        [typed EXCEPT
                           !.els = CopyTree(st.els, proto, mpop, InstanceName(i)),
                           !.msgs = CopyTreeMsgs(st.msgs, st.els, proto, mpop,
                                                 InstanceName(i)),
                           !.cip = DictSet(st.cip, pop.id,
                                           DictSet(DictGet(st.cip, pop.id), i,
                                                   PathOf(mpop, InstanceName(i))))])

\* createPopulations(): the loop over self.network.populations
RECURSIVE createPopulations(_, _)
createPopulations(pops, st) ==
    IF Len(pops) = 0 \/ st.err # "none" THEN st
    ELSE LET pop == pops[1]
             mpop == PathOf(libPath, pop.id)
         IN  createPopulations(Tail(pops),
               CopyInstances(pop, mpop, 0,
                 [st EXCEPT !.els = CreateElement(st.els, "Neutral", libPath, pop.id),
                            !.cip = DictSet(st.cip, pop.id, << >>)]))

\* getInput(input_id): moose.element raises for a path that does not exist
getInput(els, input_id) ==
    LET path == PathOf(PathOf(libPath, "inputs"), input_id)
    IN  IF path \in DOMAIN els THEN [err |-> "none", path |-> path]
        ELSE [err |-> "ValueError", path |-> ""]

\* getComp(pop_id, cellIndex, segId): cellIndex is formatted into the path,
\* segId is looked up among the int keys of seg_id_to_comp_name[cell type]
getComp(st, pop_id, cellIndex, segId) ==
    IF ~DictHas(st.ptc, pop_id) THEN [err |-> "KeyError", path |-> ""]
    ELSE IF ~DictHas(st.names, DictGet(st.ptc, pop_id))
    THEN [err |-> "KeyError", path |-> ""]
    ELSE LET names == DictGet(st.names, DictGet(st.ptc, pop_id))
             hits == { k \in 1..Len(names) : PyInt(names[k].key) = segId }
         IN  IF hits = { } THEN [err |-> "KeyError", path |-> ""]
             ELSE LET path == PathOf(PathOf(PathOf(libPath, pop_id), cellIndex),
                                     names[CHOOSE k \in hits : TRUE].val)
                  IN  IF path \in DOMAIN st.els THEN [err |-> "none", path |-> path]
                      ELSE [err |-> "ValueError", path |-> ""]

\* the parsing of el.target in createInputs. A target "pop[i]" or "pop[i]/seg"
\* is kept as its three pieces of text; split() returns the index and the
\* segment as text, and without a segment seg_id stays the int 0
TargetPop(target) == target.population
TargetIndex(target) == target.index
TargetSeg(target) ==
    IF IsNone(target.segment) THEN PyInt(0) ELSE PyStr(Val(target.segment))

\* one connection: the input is resolved first, then the compartment
ConnectInput(st, input_id, pop_id, cellIndex, segId) ==
    LET input == getInput(st.els, input_id)
        comp == getComp(st, pop_id, cellIndex, segId)
    IN  IF input.err # "none" THEN [st EXCEPT !.err = input.err]
        ELSE IF comp.err # "none" THEN [st EXCEPT !.err = comp.err]
        ELSE [st EXCEPT !.msgs = Connect(st.msgs, input.path, "output",
                                         comp.path, "injectMsg")]

\* "for el in self.network.explicit_inputs"
RECURSIVE ConnectExplicit(_, _)
ConnectExplicit(inputs, st) ==
    IF Len(inputs) = 0 \/ st.err # "none" THEN st
    ELSE ConnectExplicit(Tail(inputs),
           ConnectInput(st, inputs[1].input, TargetPop(inputs[1].target),
                        TargetIndex(inputs[1].target), TargetSeg(inputs[1].target)))

\* "for ii in il.input": the cell and segment ids of a list entry are ints
RECURSIVE ConnectList(_, _, _)
ConnectList(il, entries, st) ==
    IF Len(entries) = 0 \/ st.err # "none" THEN st
    ELSE ConnectList(il, Tail(entries),
           ConnectInput(st, il.component, il.populations,
                        ToString(entries[1].cell), PyInt(entries[1].segment)))

\* "for il in self.network.input_lists"
RECURSIVE ConnectLists(_, _)
ConnectLists(lists, st) ==
    IF Len(lists) = 0 \/ st.err # "none" THEN st
    ELSE ConnectLists(Tail(lists), ConnectList(lists[1], lists[1].input, st))

\* createInputs()
createInputs(network, st) ==
    ConnectLists(network.input_lists, ConnectExplicit(network.explicit_inputs, st))

(***************************************************************************)
(* The run of NML2Reader.read, one step per handler it calls               *)
(***************************************************************************)
CurCell == doc.cells[cellIdx]
CellPath(cell) == PathOf(libPath, cell.id)
Biophysics(cell) == Val(cell.biophysical_properties)
\* channel_densities + channel_density_v_shifts
ChannelDensities(cell) ==
    Biophysics(cell).membrane_properties.channel_densities
        \o Biophysics(cell).membrane_properties.channel_density_v_shifts
SpeciesOf(cell) == Biophysics(cell).intracellular_properties.species

\* variant: the network steps follow the cells in any case
AfterCells_Always == "populations"

\* self.network = self.doc.networks[0]; without a network the attribute is
\* never assigned and reading it raises AttributeError
TheNetwork == doc.networks[1]

\* after the loop over the cells: populations and inputs only with a network
AfterCells == IF Len(doc.networks) >= 1 THEN "populations" ELSE "done"

\* the reader's tables and the engine, as the handlers' operators take them
Now ==
    [els |-> elements, msgs |-> msgs, paths |-> paths_to_chan_elements,
     chans |-> id_to_ionChannel, protos |-> proto_chans, pools |-> proto_pools,
     err |-> "none", op |-> "none"]

\* what every handler writes back
Becomes(st) ==
    /\ elements' = st.els
    /\ msgs' = st.msgs
    /\ paths_to_chan_elements' = st.paths
    /\ id_to_ionChannel' = st.chans
    /\ proto_chans' = st.protos
    /\ proto_pools' = st.pools
    /\ err' = st.err

ImportConcentrationModels ==
    /\ pc = "concmodels"
    /\ LET st == importConcentrationModels(doc.concentration_models, Now)
       IN  /\ Becomes(st)
           /\ pc' = IF st.err = "none" THEN "ionchannels" ELSE "failed"
    /\ lastOp' = "importConcentrationModels"
    /\ UNCHANGED << doc, id_to_comp, seg_id_to_comp_name, nml_segs_to_moose,
                    cell_to_sg, includes, chanIdx, specIdx, cellIdx >>
    /\ UNCHANGED << proto_cells, netVars, viewerVars >>

ImportIonChannels ==
    /\ pc = "ionchannels"
    /\ LET st == importIonChannels(doc.ion_channels, Now)
       IN  /\ Becomes(st)
           /\ pc' = IF st.err = "none" THEN "inputs" ELSE "failed"
    /\ lastOp' = "importIonChannels"
    /\ UNCHANGED << doc, id_to_comp, seg_id_to_comp_name, nml_segs_to_moose,
                    cell_to_sg, includes, chanIdx, specIdx, cellIdx >>
    /\ UNCHANGED << proto_cells, netVars, viewerVars >>

ImportInputs ==
    /\ pc = "inputs"
    /\ Becomes([Now EXCEPT !.els = importInputs(doc.pulse_generators, elements)])
    /\ pc' = IF Len(doc.cells) = 0 THEN AfterCells ELSE "cell"
    /\ lastOp' = "importInputs"
    /\ UNCHANGED << doc, id_to_comp, seg_id_to_comp_name, nml_segs_to_moose,
                    cell_to_sg, includes, chanIdx, specIdx, cellIdx >>
    /\ UNCHANGED << proto_cells, netVars, viewerVars >>

\* createMorphology(nmlcell, moosecell, symmetric) on the engine tree els
createMorphology(nmlcell, cellpath, symmetric, els) ==
    LET segments == nmlcell.morphology.segments
        id_to_segment == IdToSegment(segments)
        created == CreateComps(segments, cellpath, CompClass(symmetric), els)
        placed == PlaceSegments(id_to_segment, created.id_to_comp, 1, symmetric,
                                [els |-> created.els, msgs |-> msgs,
                                 segs |-> nml_segs_to_moose, err |-> "none"])
        groups == SgToSegments(nmlcell.morphology)
    IN  [err |-> IF placed.err # "none" THEN placed.err ELSE groups.err,
         els |-> placed.els,
         msgs |-> placed.msgs,
         segs |-> placed.segs,
         id_to_comp |-> created.id_to_comp,
         names |-> created.names,
         sg_to_segments |-> groups.d]

\* importBiophysics: nothing to import without biophysical properties
AfterMorphology(cell) ==
    IF IsNone(cell.biophysical_properties) THEN "nextcell" ELSE "capacitances"

\* createCellPrototype up to the end of createMorphology
CreateCellPrototype ==
    /\ pc = "cell"
    /\ LET cell == CurCell
           withNeuron == CreateElement(elements, "Neuron", libPath, cell.id)
           r == createMorphology(cell, CellPath(cell), doc.symmetric, withNeuron)
       IN  /\ elements' = r.els
           /\ msgs' = r.msgs
           /\ nml_segs_to_moose' = r.segs
           /\ seg_id_to_comp_name' = DictSet(seg_id_to_comp_name, cell.id, r.names)
           /\ proto_cells' = DictSet(proto_cells, cell.id, CellPath(cell))
           /\ err' = r.err
           /\ IF r.err = "none"
              THEN /\ id_to_comp' = r.id_to_comp
                   /\ cell_to_sg' = DictSet(cell_to_sg, cell.id, r.sg_to_segments)
                   /\ pc' = AfterMorphology(cell)
              ELSE /\ UNCHANGED << id_to_comp, cell_to_sg >>
                   /\ pc' = "failed"
    /\ lastOp' = "createMorphology"
    /\ UNCHANGED << doc, id_to_ionChannel, proto_chans, proto_pools, includes,
                    chanIdx, specIdx, paths_to_chan_elements, cellIdx >>
    /\ UNCHANGED << netVars, viewerVars >>

ImportCapacitances ==
    /\ pc = "capacitances"
    /\ LET cell == CurCell
           st == importCapacitances(Biophysics(cell).membrane_properties.specific_capacitances,
                                    DictGet(cell_to_sg, cell.id), nml_segs_to_moose, Now)
       IN  /\ Becomes(st)
           /\ pc' = IF st.err # "none" THEN "failed"
                    ELSE IF Len(ChannelDensities(cell)) = 0 THEN "initmemb"
                    ELSE "channels"
    /\ chanIdx' = 1
    /\ lastOp' = "importCapacitances"
    /\ UNCHANGED << doc, id_to_comp, seg_id_to_comp_name, nml_segs_to_moose,
                    cell_to_sg, includes, specIdx, cellIdx >>
    /\ UNCHANGED << proto_cells, netVars, viewerVars >>

\* one iteration of the loop of importChannelsToCell
ImportChannelDensity ==
    /\ pc = "channels"
    /\ LET cell == CurCell
           st == importChannelDensity(cell, ChannelDensities(cell)[chanIdx],
                                      DictGet(cell_to_sg, cell.id), nml_segs_to_moose,
                                      id_to_ionChannel, proto_chans, includes, Now)
       IN  /\ Becomes(st)
           /\ lastOp' = st.op
           /\ pc' = IF st.err # "none" THEN "failed"
                    ELSE IF chanIdx = Len(ChannelDensities(cell)) THEN "initmemb"
                    ELSE "channels"
    /\ chanIdx' = chanIdx + 1
    /\ UNCHANGED << doc, id_to_comp, seg_id_to_comp_name, nml_segs_to_moose,
                    cell_to_sg, includes, specIdx, cellIdx >>
    /\ UNCHANGED << proto_cells, netVars, viewerVars >>

ImportInitMembPotential ==
    /\ pc = "initmemb"
    /\ LET cell == CurCell
           st == importInitMembPotential(
                    Biophysics(cell).membrane_properties.init_memb_potentials,
                    DictGet(cell_to_sg, cell.id), nml_segs_to_moose, Now)
       IN  /\ Becomes(st)
           /\ pc' = IF st.err # "none" THEN "failed" ELSE "axial"
    /\ lastOp' = "importInitMembPotential"
    /\ UNCHANGED << doc, id_to_comp, seg_id_to_comp_name, nml_segs_to_moose,
                    cell_to_sg, includes, chanIdx, specIdx, cellIdx >>
    /\ UNCHANGED << proto_cells, netVars, viewerVars >>

ImportAxialResistance ==
    /\ pc = "axial"
    /\ LET cell == CurCell
           st == importAxialResistance(cell,
                    Biophysics(cell).intracellular_properties.resistivities,
                    DictGet(cell_to_sg, cell.id), nml_segs_to_moose, Now)
       IN  /\ Becomes(st)
           /\ pc' = IF st.err # "none" THEN "failed"
                    ELSE IF Len(SpeciesOf(cell)) = 0 THEN "nextcell"
                    ELSE "species"
    /\ specIdx' = 1
    /\ lastOp' = "importAxialResistance"
    /\ UNCHANGED << doc, id_to_comp, seg_id_to_comp_name, nml_segs_to_moose,
                    cell_to_sg, includes, chanIdx, cellIdx >>
    /\ UNCHANGED << proto_cells, netVars, viewerVars >>

\* one iteration of the loop of importSpecies
ImportSpecies ==
    /\ pc = "species"
    /\ LET cell == CurCell
           st == importOneSpecies(cell, SpeciesOf(cell)[specIdx],
                                  DictGet(cell_to_sg, cell.id), nml_segs_to_moose,
                                  proto_pools, includes, Now)
       IN  /\ Becomes(st)
           /\ lastOp' = st.op
           /\ pc' = IF st.err # "none" THEN "failed"
                    ELSE IF specIdx = Len(SpeciesOf(cell)) THEN "nextcell"
                    ELSE "species"
    /\ specIdx' = specIdx + 1
    /\ UNCHANGED << doc, id_to_comp, seg_id_to_comp_name, nml_segs_to_moose,
                    cell_to_sg, includes, chanIdx, cellIdx >>
    /\ UNCHANGED << proto_cells, netVars, viewerVars >>

\* "for cell in self.doc.cells": on to the next cell, or the end of read
NextCell ==
    /\ pc = "nextcell"
    /\ IF cellIdx < Len(doc.cells)
       THEN cellIdx' = cellIdx + 1 /\ pc' = "cell"
       ELSE cellIdx' = cellIdx /\ pc' = AfterCells
    /\ lastOp' = "nextcell"
    /\ UNCHANGED << doc, err, elements, msgs, id_to_comp, seg_id_to_comp_name,
                    nml_segs_to_moose, cell_to_sg, id_to_ionChannel, proto_chans,
                    proto_pools, includes, chanIdx, specIdx, paths_to_chan_elements >>
    /\ UNCHANGED << proto_cells, netVars, viewerVars >>

\* the reader's tables and the engine, as the network operators take them
NetNow ==
    [els |-> elements, msgs |-> msgs, cip |-> cells_in_populations,
     ptc |-> pop_to_cell_type, cells |-> proto_cells, names |-> seg_id_to_comp_name,
     err |-> "none"]

\* "if len(self.doc.networks)>=1: self.createPopulations()"
CreatePopulations ==
    /\ pc = "populations"
    /\ LET st == IF Len(doc.networks) = 0
                 THEN [NetNow EXCEPT !.err = "AttributeError"]
                 ELSE createPopulations(TheNetwork.populations, NetNow)
       IN  /\ elements' = st.els
           /\ msgs' = st.msgs
           /\ cells_in_populations' = st.cip
           /\ pop_to_cell_type' = st.ptc
           /\ err' = st.err
           /\ pc' = IF st.err = "none" THEN "netinputs" ELSE "failed"
    /\ lastOp' = "createPopulations"
    /\ UNCHANGED << doc, id_to_comp, seg_id_to_comp_name, nml_segs_to_moose,
                    cell_to_sg, id_to_ionChannel, proto_chans, proto_pools, includes,
                    chanIdx, specIdx, paths_to_chan_elements, cellIdx, proto_cells >>
    /\ UNCHANGED viewerVars

\* "self.createInputs()", the last call of read
CreateInputs ==
    /\ pc = "netinputs"
    /\ LET st == IF Len(doc.networks) = 0
                 THEN [NetNow EXCEPT !.err = "AttributeError"]
                 ELSE createInputs(TheNetwork, NetNow)
       IN  /\ msgs' = st.msgs
           /\ err' = st.err
           /\ pc' = IF st.err = "none" THEN "done" ELSE "failed"
    /\ lastOp' = "createInputs"
    /\ UNCHANGED << doc, elements, id_to_comp, seg_id_to_comp_name, nml_segs_to_moose,
                    cell_to_sg, id_to_ionChannel, proto_chans, proto_pools, includes,
                    chanIdx, specIdx, paths_to_chan_elements, cellIdx, proto_cells,
                    netVars >>
    /\ UNCHANGED viewerVars

\* a caller invoking createDecayingPoolConcentrationModel itself before read and
\* catching what it raises: the prototype is registered before the method
\* raises, so the reader goes on with the pool in proto_pools and err untouched
CallCreateDecayingPool(concModel) ==
    /\ pc = "concmodels"
    /\ ~DictHas(proto_pools, concModel.id)
    /\ lastOp = "init"
    /\ LET st == createDecayingPoolConcentrationModel(concModel, Now)
       IN  /\ elements' = st.els
           /\ proto_pools' = st.pools
           /\ lastOp' = "caught_" \o st.err
    /\ UNCHANGED << doc, pc, err, msgs, id_to_comp, seg_id_to_comp_name,
                    nml_segs_to_moose, cell_to_sg, id_to_ionChannel, proto_chans,
                    includes, chanIdx, specIdx, cellIdx, paths_to_chan_elements >>
    /\ UNCHANGED << proto_cells, netVars, viewerVars >>

(***************************************************************************)
(* moogli: DynamicMorphologyViewerWidget                                   *)
(***************************************************************************)
\* idle times passed to set_callback (2000 is the default)
IdleTimes == { 500, 2000 }

\* a widget after construction: no callback attribute yet.  returns is the
\* record of the values its callback returned since the last set_callback and
\* callers of who ran start_cycle each time ("set_callback", "timeout" for the
\* timer's signal, "call" for a call of the method by the user); updates counts
\* the calls of self.update()
NewWidget ==
    [callback |-> None, idletime |-> None, returns |-> << >>, callers |-> << >>,
     updates |-> 0, cycles |-> 0]

\* QTimer.start(msec): the timer runs with that interval (restarted if it ran);
\* it is not single-shot, so it stays active after each timeout
TimerStart(t, msec) == [t EXCEPT !.active = TRUE, !.interval = msec]

\* QTimer.timeout.connect(slot): one more connection, kept in order; a slot
\* connected twice is invoked twice per timeout
TimerConnect(t, w) == [t EXCEPT !.connections = Append(t.connections, w)]

\* start_cycle of widget w in viewer state v, run by the caller named, its
\* callback returning ret
start_cycle(v, w, ret, by) ==
    LET called == [v.widgets EXCEPT ![w].returns = Append(@, ret),
                                    ![w].callers = Append(@, by),
                                    ![w].cycles = @ + 1]
        started == IF ret THEN TimerStart(v.timer, Val(called[w].idletime))
                   ELSE v.timer
    IN  [widgets |-> [called EXCEPT ![w].updates = @ + 1], timer |-> started]

\* the slots of one timeout signal, invoked in connection order from slot k on
RECURSIVE EmitTimeout(_, _, _)
EmitTimeout(v, rets, k) ==
    IF k > Len(v.timer.connections) THEN v
    ELSE EmitTimeout(start_cycle(v, v.timer.connections[k], rets[k], "timeout"),
                     rets, k + 1)

\* callback invocations so far, over all widgets
RECURSIVE CallsUpTo(_)
CallsUpTo(k) == IF k = 0 THEN 0 ELSE widgets[k].cycles + CallsUpTo(k - 1)

TotalCalls == CallsUpTo(Len(widgets))

ViewerNow == [widgets |-> widgets, timer |-> timer]

ViewerBecomes(v) == widgets' = v.widgets /\ timer' = v.timer

\* DynamicMorphologyViewerWidget(): one more widget; the timer is the class
\* attribute, created once and shared
Construct ==
    /\ Len(widgets) < MaxWidgets
    /\ widgets' = Append(widgets, NewWidget)
    /\ err' = "none"
    /\ UNCHANGED << timer, readerOther >>

\* widget.set_callback(callback, idletime)
SetCallback ==
    \E w \in 1..Len(widgets), idletime \in IdleTimes, ret \in BOOLEAN :
        /\ TotalCalls < MaxCalls
        /\ LET stored == [widgets EXCEPT ![w].callback = Some("callback"),
                                         ![w].idletime = Some(idletime),
                                         ![w].returns = << >>,
                                         ![w].callers = << >>]
           IN  ViewerBecomes(start_cycle([widgets |-> stored,
                                          timer |-> TimerConnect(timer, w)],
                                         w, ret, "set_callback"))
        /\ err' = "none"
        /\ UNCHANGED readerOther

\* widget.start_cycle() called by the user: the method is public.  Before any
\* set_callback the widget has no attribute callback, and the call raises
\* AttributeError with nothing changed
StartCycle ==
    \E w \in 1..Len(widgets), ret \in BOOLEAN :
        /\ IF IsNone(widgets[w].callback)
           THEN /\ err' = "AttributeError"
                /\ UNCHANGED viewerVars
           ELSE /\ TotalCalls < MaxCalls
                /\ ViewerBecomes(start_cycle(ViewerNow, w, ret, "call"))
                /\ err' = "none"
        /\ UNCHANGED readerOther

\* the event loop delivers one timeout of the running timer
Timeout ==
    /\ timer.active
    /\ TotalCalls + Len(timer.connections) <= MaxCalls
    /\ \E rets \in [1..Len(timer.connections) -> BOOLEAN] :
          ViewerBecomes(EmitTimeout(ViewerNow, rets, 1))
    /\ UNCHANGED readerVars

(***************************************************************************)
(* Documents                                                               *)
(***************************************************************************)
\* no coordinate is 0, the value of a coordinate that was never assigned
PtA == [x |-> 1, y |-> 1, z |-> 1, diameter |-> 2]
PtB == [x |-> 4, y |-> 5, z |-> 1, diameter |-> 4]
\* at distance sqrt(2) from PtA, sqrt(13) from PtB
PtC == [x |-> 2, y |-> 2, z |-> 1, diameter |-> 2]
Points == { PtA, PtB, PtC }

SegNames == { None, Some("soma"), Some("comp_0") }

\* the segment ids of a cell with n segments
SegIdSet(n) == 0..(n - 1)

\* following parent references from segment index i leads to a root within fuel steps
RECURSIVE ReachesRoot(_, _, _)
ReachesRoot(parents, i, fuel) ==
    IF IsNone(parents[i]) THEN TRUE
    ELSE IF fuel = 0 THEN FALSE
    ELSE ReachesRoot(parents, Val(parents[i]) + 1, fuel - 1)

IsForest(parents, n) == \A i \in 1..n : ReachesRoot(parents, i, n)

MkSegments(n, names, parents, prox, dist) ==
    [i \in 1..n |-> [id |-> i - 1, name |-> names[i], parent |-> parents[i],
                     proximal |-> prox[i], distal |-> dist[i]]]

NoBiophysics == None

MkCell(id, segments, groups, bp) ==
    [id |-> id, morphology |-> [segments |-> segments, segment_groups |-> groups],
     biophysical_properties |-> bp]

MkDoc(cells, symmetric, chans, concs) ==
    [cells |-> cells, symmetric |-> symmetric, ion_channels |-> chans,
     concentration_models |-> concs, pulse_generators |-> << >>,
     networks |-> << >>, ComponentType |-> << >>]

\* an included reader that built one pool prototype of its own
InnerPoolPath == PathOf(libPath, "included_pool")
InnerReader ==
    [proto_pools |-> << [key |-> "Other", val |-> InnerPoolPath] >>,
     proto_chans |-> << >>]
InnerPool ==
    [NewElement("CaConc", libPath, "included_pool")
        EXCEPT !.B = BaseB, !.thick = QInt(1)]

\* the reader right after __init__, about to read document d; incl is what the
\* caller put into reader.includes (the reader itself never fills it)
ReaderAt(d, incl) ==
    /\ doc = d
    /\ pc = "concmodels"
    /\ err = "none"
    /\ elements = IF Len(incl) = 0
                  THEN (libPath :> NewElement("Neutral", "", "library"))
                  ELSE (libPath :> NewElement("Neutral", "", "library"))
                       @@ (InnerPoolPath :> InnerPool)
    /\ msgs = << >>
    /\ id_to_comp = << >>
    /\ seg_id_to_comp_name = << >>
    /\ nml_segs_to_moose = << >>
    /\ cell_to_sg = << >>
    /\ id_to_ionChannel = << >>
    /\ proto_chans = << >>
    /\ proto_pools = << >>
    /\ includes = incl
    /\ chanIdx = 1
    /\ specIdx = 1
    /\ paths_to_chan_elements = << >>
    /\ cellIdx = 1
    /\ lastOp = "init"
    /\ proto_cells = << >>
    /\ cells_in_populations = << >>
    /\ pop_to_cell_type = << >>
    /\ widgets = << >>
    /\ timer = [active |-> FALSE, interval |-> 0, connections |-> << >>]

\* documents that vary the segments of one cell: names, parents, proximal and
\* distal points (PtC on the first segment only)
InitGeom ==
    \E n \in 1..MaxSegs, symmetric \in BOOLEAN :
      \E names \in [1..n -> SegNames],
         parents \in [1..n -> { None } \cup { Some(j) : j \in SegIdSet(n) }],
         prox \in [1..n -> { None, Some(PtA) }],
         dist \in [1..n -> Points] :
        /\ IsForest(parents, n)
        /\ \A i \in 2..n : dist[i] # PtC
        /\ ReaderAt(MkDoc(<< MkCell("cell", MkSegments(n, names, parents, prox, dist),
                                    << >>, NoBiophysics) >>,
                          symmetric, << >>, << >>), << >>)

\* a chain of n segments with distinct names, ids n-1 down to 0 in document
\* order, every proximal point but the root's inherited; the root is a sphere
\* (length 0)
ChainSegments(n) ==
    [i \in 1..n |-> [id |-> n - i, name |-> Some("seg" \o ToString(n - i)),
                     parent |-> IF i = 1 THEN None ELSE Some(n - i + 1),
                     proximal |-> IF i = 1 THEN Some(PtA) ELSE None,
                     distal |-> IF i % 2 = 1 THEN PtA ELSE PtB]]

GroupIds == { "all", "soma_group", "dend_group" }

\* group declared at position i includes, transitively and within fuel steps, gid
RECURSIVE IncludesWithin(_, _, _, _)
IncludesWithin(groups, i, gid, fuel) ==
    IF fuel = 0 THEN FALSE
    ELSE \E k \in 1..Len(groups[i].includes) :
            \/ groups[i].includes[k] = gid
            \/ \E j \in 1..Len(groups) :
                  /\ groups[j].id = groups[i].includes[k]
                  /\ IncludesWithin(groups, j, gid, fuel - 1)

AcyclicGroups(groups) ==
    \A i \in 1..Len(groups) : ~IncludesWithin(groups, i, groups[i].id, Len(groups))

\* documents that vary the segment groups of a two-segment chain cell
InitGroups ==
    \E g \in 0..MaxGroups :
      \E ids \in { s \in SeqsNoRep(GroupIds, g) : Len(s) = g } :
        \E members \in [1..g -> SeqsNoRep(SegIdSet(2), 2)],
           incs \in [1..g -> SeqsNoRep(Range(ids), 2)] :
          LET groups == [i \in 1..g |-> [id |-> ids[i], members |-> members[i],
                                         includes |-> incs[i]]]
          IN  /\ \A i \in 1..g : ids[i] \notin Range(incs[i])
              /\ AcyclicGroups(groups)
              /\ ReaderAt(MkDoc(<< MkCell("cell", ChainSegments(2), groups,
                                          NoBiophysics) >>,
                                TRUE, << >>, << >>), << >>)

\* the groups of the cells that carry biophysics: soma_group = [seg1],
\* dend_group = [seg0] plus soma_group, "all" left to be synthesized
RegionGroups ==
    << [id |-> "soma_group", members |-> << 1 >>, includes |-> << >>],
       [id |-> "dend_group", members |-> << 0 >>, includes |-> << "soma_group" >>] >>

Quantity(mag, unit) == [mag |-> mag, unit |-> unit]

MkBiophysics(caps, dens, vshifts, inits, resist, species) ==
    Some([membrane_properties |->
              [specific_capacitances |-> caps, channel_densities |-> dens,
               channel_density_v_shifts |-> vshifts, init_memb_potentials |-> inits],
          intracellular_properties |-> [resistivities |-> resist, species |-> species]])

\* a rate function of a gate
RateFn(gate, role) == [type |-> "HHExpRate", of |-> gate, role |-> role]

\* q10 settings of a gate
Q10Fixed(q) ==
    [type |-> "q10Fixed", fixed_q10 |-> q, q10_factor |-> 1,
     experimental_temp |-> Quantity(0, "K")]
Q10ExpTemp(factor, temp) ==
    [type |-> "q10ExpTemp", fixed_q10 |-> 1, q10_factor |-> factor,
     experimental_temp |-> Quantity(temp, "K")]
Q10Unknown == [Q10Fixed(1) EXCEPT !.type = "q10Bogus"]

\* a gate of chan.gate_hh_rates: forward and reverse rates, nothing else
RatesGate(id) ==
    [id |-> id, kind |-> "gate_hh_rates",
     forward_rate |-> Some(RateFn(id, "forward")),
     reverse_rate |-> Some(RateFn(id, "reverse")),
     time_course |-> None, steady_state |-> None, q10_settings |-> None]

\* a leak channel, a two-gate HH channel, and a channel of type ionChannel
\* without gates
IonChannelDefs ==
    << [id |-> "pas", type |-> "ionChannelPassive", gates |-> << >>,
        gate_hh_rates |-> << >>],
       [id |-> "na", type |-> "ionChannelHH", gates |-> << >>,
        gate_hh_rates |-> << RatesGate("m"), RatesGate("h") >>],
       [id |-> "nogate", type |-> "ionChannel", gates |-> << >>,
        gate_hh_rates |-> << >>] >>

\* a current pulse defined in the document
PulseGenerator(id) ==
    [id |-> id, delay |-> Quantity(100, "ms"), duration |-> Quantity(100, "ms"),
     amplitude |-> Quantity(1, "nA")]

\* a channel whose id is the name of the container importInputs makes in the
\* library: the pulse generators of the document come to lie under its prototype
InputsChannel ==
    [id |-> "inputs", type |-> "ionChannelHH", gates |-> << >>,
     gate_hh_rates |-> << RatesGate("m") >>]

\* "kx" is defined nowhere
ChannelRefs == { "pas", "na", "nogate", "kx" }
DensityValues ==
    { [cond_density |-> Quantity(1, "S_per_m2"), erev |-> Quantity(-70, "mV")],
      [cond_density |-> Quantity(2, "mS_per_cm2"), erev |-> Quantity(50, "mV")] }
GroupRefs == { None, Some("all"), Some("soma_group"), Some("dend_group") }

\* documents that vary the channel densities of a two-segment cell, and
\* documents with a density of the channel "inputs" and a pulse generator
InitChan ==
    \/ \E n \in 0..MaxDens :
         \E refs \in [1..n -> ChannelRefs], vals \in [1..n -> DensityValues],
            grps \in [1..n -> GroupRefs] :
           LET decls == [i \in 1..n |->
                           [id |-> "dens" \o ToString(i), ion_channel |-> refs[i],
                            cond_density |-> vals[i].cond_density, erev |-> vals[i].erev,
                            segment_groups |-> grps[i], has_camel |-> FALSE]]
               \* with two or more declarations the last one is a v-shift density
               k == IF n >= 2 THEN n - 1 ELSE n
           IN  /\ ReaderAt(MkDoc(<< MkCell("cell", ChainSegments(2), RegionGroups,
                       MkBiophysics(<< [value |-> Quantity(1, "uF_per_cm2"),
                                        segment_groups |-> Some("all")] >>,
                                    SubSeq(decls, 1, k), SubSeq(decls, k + 1, n),
                                    << >>, << >>, << >>)) >>,
                       TRUE, IonChannelDefs, << >>), << >>)
    \/ \E vals \in DensityValues, grps \in { Some("all"), Some("dend_group") } :
         ReaderAt([MkDoc(<< MkCell("cell", ChainSegments(2), RegionGroups,
                       MkBiophysics(<< [value |-> Quantity(1, "uF_per_cm2"),
                                        segment_groups |-> Some("all")] >>,
                                    << [id |-> "dens1", ion_channel |-> "inputs",
                                        cond_density |-> vals.cond_density,
                                        erev |-> vals.erev, segment_groups |-> grps,
                                        has_camel |-> FALSE] >>,
                                    << >>, << >>, << >>, << >>)) >>,
                       TRUE, << InputsChannel >>, << >>)
                   EXCEPT !.pulse_generators = << PulseGenerator("pg") >>], << >>)

MkPoolModel(named, camel, thickness) ==
    [id |-> "CaPool", has_name |-> named, has_camel |-> camel, restingConc |-> Quantity(1, "mM"),
     decayConstant |-> Quantity(10, "ms"),
     shellThickness |-> Quantity(thickness, "half_um")]

\* shell thicknesses below, at and above half the diameter (6) of the dendrite
PoolModels ==
    { MkPoolModel(n, c, t) : n \in BOOLEAN, c \in BOOLEAN, t \in { 1, 3, 5 } }

SpeciesChoices ==
    { [id |-> "ca", concentration_model |-> cm, cm_has_id |-> hasid,
       cm_is_key |-> iskey, has_camel |-> camel, segment_groups |-> g] :
        cm \in { None, Some("CaPool"), Some("Other") }, hasid \in BOOLEAN,
        iskey \in BOOLEAN, camel \in BOOLEAN, g \in { None, Some("dend_group") } }

\* documents that vary the species of a two-segment cell, read by a reader with
\* or without an included reader
InitSpecies ==
    \E n \in 0..MaxSpecies :
      \E sp \in [1..n -> SpeciesChoices],
         incl \in { << >>, << InnerReader >> },
         concs \in { << >>, << MkPoolModel(TRUE, TRUE, 1) >>,
                    << MkPoolModel(TRUE, FALSE, 1) >>,
                    << MkPoolModel(FALSE, FALSE, 1) >> } :
        ReaderAt(MkDoc(<< MkCell("cell", ChainSegments(2), RegionGroups,
                    MkBiophysics(<< >>, << >>, << >>,
                                 << [value |-> Quantity(-65, "mV"),
                                     segment_groups |-> Some("all")] >>,
                                 << [value |-> Quantity(1, "ohm_m"),
                                     segment_groups |-> None] >>,
                                 [i \in 1..n |-> sp[i]])) >>,
                    TRUE, << >>, concs), incl)

\* group k of a chain of inclusions: it includes group k+1, the last includes none
NestedGroup(k, members) ==
    [id |-> "g" \o ToString(k), members |-> members,
     includes |-> IF k <= NestDepth THEN << "g" \o ToString(k + 1) >> ELSE << >>]

\* documents whose cell declares a chain of NestDepth inclusion steps, the
\* groups in any order of declaration, each with at most one direct member
InitNested ==
    \E order \in [1..(NestDepth + 1) -> 1..(NestDepth + 1)],
       members \in [1..(NestDepth + 1) -> { << >>, << 0 >>, << 1 >> }] :
        /\ \A i, j \in 1..(NestDepth + 1) : order[i] = order[j] => i = j
        /\ ReaderAt(MkDoc(<< MkCell("cell", ChainSegments(2),
                                    [i \in 1..(NestDepth + 1) |->
                                        NestedGroup(order[i], members[order[i]])],
                                    NoBiophysics) >>,
                          TRUE, << >>, << >>), << >>)

\* the gates of chan.gates: any of the four rate functions present or absent
GateShapes ==
    { [fwd |-> f, rev |-> r, tc |-> t, ss |-> i] :
        f \in BOOLEAN, r \in BOOLEAN, t \in BOOLEAN, i \in BOOLEAN }

ShapedGate(id, shape) ==
    [id |-> id, kind |-> "gate",
     forward_rate |-> IF shape.fwd THEN Some(RateFn(id, "forward")) ELSE None,
     reverse_rate |-> IF shape.rev THEN Some(RateFn(id, "reverse")) ELSE None,
     time_course |-> IF shape.tc THEN Some(RateFn(id, "tau")) ELSE None,
     steady_state |-> IF shape.ss THEN Some(RateFn(id, "inf")) ELSE None,
     q10_settings |-> None]

IsPlainGate(g) == g.kind = "gate"
IsRatesGate(g) == g.kind = "gate_hh_rates"

\* the q10 settings of the first gate of a channel: none, fixed, by
\* temperature (with a factor of 3, of 0 and of -2, and with a factor of 10 at
\* an experimental temperature far below the network's), of an unknown type
Q10Choices ==
    { None, Some(Q10Fixed(2)), Some(Q10ExpTemp(3, 300)), Some(Q10ExpTemp(0, 300)),
      Some(Q10ExpTemp(-2, 300)), Some(Q10ExpTemp(10, -3700)), Some(Q10Unknown) }

\* the networks of a document with gated channels: none, one without a
\* temperature, one at 305 K
GateNetworks ==
    { << >>,
      << [type |-> "network", temperature |-> None, populations |-> << >>,
          explicit_inputs |-> << >>, input_lists |-> << >>] >>,
      << [type |-> "networkWithTemperature",
          temperature |-> Some(Quantity(305, "K")), populations |-> << >>,
          explicit_inputs |-> << >>, input_lists |-> << >>] >> }

\* an earlier definition of the channel id "k", with two gates of gate_hh_rates
EarlierDef ==
    [id |-> "k", type |-> "ionChannelHH", gates |-> << >>,
     gate_hh_rates |-> << RatesGate("m"), RatesGate("h") >>]

\* documents with one gated channel: 1..MaxGates gates, each a gate of
\* chan.gates of any shape or a gate of chan.gate_hh_rates, the first with or
\* without q10 settings; the document may define the same channel id once
\* before, and may have a network (which matters to q10 by temperature only)
InitGates ==
    \E n \in 1..MaxGates, type \in { "ionChannelHH", "ionChannel" } :
      \E shapes \in [1..n -> GateShapes], rates \in [1..n -> BOOLEAN],
         q10 \in Q10Choices, nets \in GateNetworks, twice \in BOOLEAN :
        LET plain == [i \in 1..n |->
                        IF rates[i] THEN RatesGate("g" \o ToString(i))
                        ELSE ShapedGate("g" \o ToString(i), shapes[i])]
            gs == [plain EXCEPT ![1].q10_settings = q10]
            chan == [id |-> "k", type |-> type,
                     gates |-> SelectSeq(gs, IsPlainGate),
                     gate_hh_rates |-> SelectSeq(gs, IsRatesGate)]
        IN  /\ \A i \in 1..n : rates[i] => shapes[i] = [fwd |-> TRUE, rev |-> TRUE,
                                                       tc |-> FALSE, ss |-> FALSE]
            /\ Len(nets) > 0 => /\ ~IsNone(q10)
                                /\ Val(q10).type = "q10ExpTemp"
            /\ ReaderAt([MkDoc(<< MkCell("cell", ChainSegments(2), << >>,
                                         NoBiophysics) >>, TRUE,
                               IF twice THEN << EarlierDef, chan >> ELSE << chan >>,
                               << >>)
                            EXCEPT !.networks = nets], << >>)

MkNetwork(pops, explicit, lists) ==
    [type |-> "network", temperature |-> None, populations |-> pops,
     explicit_inputs |-> explicit, input_lists |-> lists]

MkNetDoc(cells, concs, networks) ==
    [MkDoc(cells, TRUE, IonChannelDefs, concs)
        EXCEPT !.pulse_generators = << PulseGenerator("pg") >>,
               !.networks = networks]

\* a cell with two regions, a leak and an HH channel; its segment ids are 1, 0
CellA ==
    MkCell("cellA", ChainSegments(2), RegionGroups,
           MkBiophysics(<< [value |-> Quantity(1, "uF_per_cm2"),
                            segment_groups |-> Some("all")] >>,
                        << [id |-> "leak", ion_channel |-> "pas",
                            cond_density |-> Quantity(1, "S_per_m2"),
                            erev |-> Quantity(-70, "mV"),
                            segment_groups |-> Some("all"), has_camel |-> FALSE],
                           [id |-> "nadens", ion_channel |-> "na",
                            cond_density |-> Quantity(2, "mS_per_cm2"),
                            erev |-> Quantity(50, "mV"),
                            segment_groups |-> Some("dend_group"),
                            has_camel |-> FALSE] >>,
                        << >>,
                        << [value |-> Quantity(-65, "mV"),
                            segment_groups |-> Some("all")] >>,
                        << [value |-> Quantity(1, "ohm_m"),
                            segment_groups |-> None] >>,
                        << >>))

\* a bare cell whose segment ids are 2, 1: it has no segment 0
CellB ==
    MkCell("cellB",
           << [id |-> 2, name |-> Some("root"), parent |-> None,
               proximal |-> Some(PtA), distal |-> PtA],
              [id |-> 1, name |-> None, parent |-> Some(2),
               proximal |-> None, distal |-> PtB] >>,
           << >>, NoBiophysics)

PopId(k) == "pop" \o ToString(k)

\* documents that vary the cells, the presence of a network and its
\* populations; the one explicit input targets instance 0 of the first population
InitPops ==
    \E ncells \in 1..2, hasNet \in BOOLEAN, n \in 0..MaxPops,
       concs \in { << >>, << MkPoolModel(TRUE, TRUE, 1) >> } :
      \E comps \in [1..n -> { "cellA", "cellB" }], sizes \in [1..n -> 0..MaxSize] :
        /\ hasNet \/ n = 0
        /\ Len(concs) = 0 \/ n = 0
        /\ \A k \in 1..n : comps[k] = "cellB" => ncells = 2
        /\ ReaderAt(MkNetDoc(SubSeq(<< CellA, CellB >>, 1, ncells), concs,
                     IF hasNet
                     THEN << MkNetwork([k \in 1..n |->
                                          [id |-> PopId(k), component |-> comps[k],
                                           size |-> sizes[k]]],
                                       << [target |-> [population |-> PopId(1),
                                                       index |-> "0",
                                                       segment |-> None],
                                           input |-> "pg"] >>,
                                       << >>) >>
                     ELSE << >>), << >>)

\* explicit inputs: the population, the instance index and the segment of a
\* target "pop[i]" or "pop[i]/seg"; "pop9" and segment 7 exist nowhere
InputChoices ==
    { [target |-> [population |-> p, index |-> i, segment |-> g], input |-> "pg"] :
        p \in { PopId(1), PopId(2), "pop9" }, i \in { "0", "1" },
        g \in { None, Some("0"), Some("1"), Some("7") } }

\* documents that vary the inputs of a network of two populations: two
\* instances of cellA and one of cellB
InitInputs ==
    \E n \in 0..MaxInputs :
      \E ins \in [1..n -> InputChoices],
         lists \in { << >>,
                     << [component |-> "pg", populations |-> PopId(1),
                         input |-> << [cell |-> 1, segment |-> 1] >>] >> } :
        ReaderAt(MkNetDoc(<< CellA, CellB >>, << >>,
                   << MkNetwork(<< [id |-> PopId(1), component |-> "cellA", size |-> 2],
                                   [id |-> PopId(2), component |-> "cellB", size |-> 1] >>,
                                [k \in 1..n |-> ins[k]], lists) >>), << >>)

(***************************************************************************)
(* Specifications                                                          *)
(***************************************************************************)
NextMorph ==
    \/ ImportConcentrationModels
    \/ ImportIonChannels
    \/ ImportInputs
    \/ CreateCellPrototype
    \/ NextCell

SpecGeom == InitGeom /\ [][NextMorph]_vars

SpecGroups == InitGroups /\ [][NextMorph]_vars

SpecNested == InitNested /\ [][NextMorph]_vars

SpecGates == InitGates /\ [][NextMorph]_vars

NextChan ==
    \/ ImportConcentrationModels
    \/ ImportIonChannels
    \/ ImportInputs
    \/ CreateCellPrototype
    \/ ImportCapacitances
    \/ ImportChannelDensity

SpecChan == InitChan /\ [][NextChan]_vars

NextSpecies ==
    \/ \E m \in PoolModels : CallCreateDecayingPool(m)
    \/ ImportConcentrationModels
    \/ ImportIonChannels
    \/ ImportInputs
    \/ CreateCellPrototype
    \/ ImportCapacitances
    \/ ImportInitMembPotential
    \/ ImportAxialResistance
    \/ ImportSpecies
    \/ NextCell

SpecSpecies == InitSpecies /\ [][NextSpecies]_vars

NextNet ==
    \/ ImportConcentrationModels
    \/ ImportIonChannels
    \/ ImportInputs
    \/ CreateCellPrototype
    \/ ImportCapacitances
    \/ ImportChannelDensity
    \/ ImportInitMembPotential
    \/ ImportAxialResistance
    \/ NextCell
    \/ CreatePopulations
    \/ CreateInputs

SpecPops == InitPops /\ [][NextNet]_vars

SpecInputs == InitInputs /\ [][NextNet]_vars

\* the viewer: no document is read, widgets are constructed and driven
InitViewer == ReaderAt(MkDoc(<< >>, TRUE, << >>, << >>), << >>)

NextViewer == Construct \/ SetCallback \/ StartCycle \/ Timeout

\* the event loop keeps delivering the timeouts of a running timer
SpecViewer == InitViewer /\ [][NextViewer]_vars /\ WF_vars(Timeout)

(***************************************************************************)
(* Properties of createMorphology                                          *)
(***************************************************************************)
TheCell == doc.cells[1]
TheSegments == TheCell.morphology.segments
TheGroups == TheCell.morphology.segment_groups

MorphologyBuilt == lastOp = "createMorphology" /\ err = "none"

NoDuplicates(list) == \A i, j \in 1..Len(list) : i # j => list[i] # list[j]

\* C1: after createMorphology every group's recorded segment list holds each
\* segment identifier at most once, whatever the direct members and includes.
C1_GroupListsDeduplicated ==
    MorphologyBuilt =>
        LET sg == DictGet(cell_to_sg, TheCell.id)
        IN  \A k \in 1..Len(sg) : NoDuplicates(sg[k].val)

DeclaresAll == \E i \in 1..Len(TheGroups) : TheGroups[i].id = "all"
DeclaredAll == TheGroups[CHOOSE i \in 1..Len(TheGroups) : TheGroups[i].id = "all"]

\* C2: without a declared group "all" the mapping has an entry "all" that is the
\* morphology's segment list, each segment once, in document order; a declared
\* "all" keeps its own list (its declared members first) and is not replaced.
C2_SynthesizedAll ==
    MorphologyBuilt =>
        LET sg == DictGet(cell_to_sg, TheCell.id)
            all == DictGet(sg, "all")
        IN  /\ DictHas(sg, "all")
            /\ ~DeclaresAll =>
                  /\ Len(all) = Len(TheSegments)
                  /\ \A i \in 1..Len(all) : all[i] = TheSegments[i].id
            /\ DeclaresAll =>
                  /\ Len(all) >= Len(DeclaredAll.members)
                  /\ SubSeq(all, 1, Len(DeclaredAll.members)) = DeclaredAll.members
                  /\ (DeclaredAll.members = << >> /\ DeclaredAll.includes = << >>)
                        => all = << >>

C2_Witness ==
    /\ MorphologyBuilt
    /\ ~DeclaresAll
    /\ Len(TheGroups) = 2
    /\ DictGet(DictGet(cell_to_sg, TheCell.id), "all") = << 1, 0 >>

SegIndex(id) == CHOOSE i \in 1..Len(TheSegments) : TheSegments[i].id = id
Orphan(i) == IsNone(TheSegments[i].proximal) /\ IsNone(TheSegments[i].parent)
HasOrphan == \E i \in 1..Len(TheSegments) : Orphan(i)
\* the segments the second loop handled without raising
Placed == { i \in 1..Len(TheSegments) : \A j \in 1..i : ~Orphan(j) }
ExpectedP0(i) ==
    IF ~IsNone(TheSegments[i].proximal) THEN Val(TheSegments[i].proximal)
    ELSE TheSegments[SegIndex(Val(TheSegments[i].parent))].distal
SegPath(i) == PathOf(CellPath(TheCell), CompName(TheSegments[i]))

\* C3: the start point of a compartment is the explicit proximal point of its
\* segment, else the distal point of the segment's parent; a segment with neither
\* makes createMorphology raise, and its compartment gets no start point
\* from it (a compartment keeps what the last placed segment of that name wrote).
C3_ProximalResolution ==
    lastOp = "createMorphology" =>
        /\ HasOrphan <=> (err = "Exception" /\ pc = "failed")
        /\ ~HasOrphan => err = "none"
        /\ \A i \in 1..Len(TheSegments) :
              LET writers == { j \in Placed : SegPath(j) = SegPath(i) }
                  c == elements[SegPath(i)]
              IN  IF writers = { }
                  THEN c.x0 = 0 /\ c.y0 = 0 /\ c.z0 = 0
                  ELSE LET w == CHOOSE j \in writers : \A k \in writers : k <= j
                       IN  /\ c.x0 = ExpectedP0(w).x * lunit
                           /\ c.y0 = ExpectedP0(w).y * lunit
                           /\ c.z0 = ExpectedP0(w).z * lunit

\* a first segment that inherits its start point, then an orphan that raises
C3_Witness ==
    /\ lastOp = "createMorphology"
    /\ err = "Exception"
    /\ Len(TheSegments) = 2
    /\ IsNone(TheSegments[1].proximal) /\ TheSegments[1].parent = Some(1)
    /\ Orphan(2)
    /\ SegPath(1) # SegPath(2)
    /\ elements[SegPath(1)].x0 = TheSegments[2].distal.x * lunit
    /\ elements[SegPath(2)].x0 = 0

CellCompartments ==
    { p \in DOMAIN elements : elements[p].parent = CellPath(TheCell) }

\* C4: after createMorphology the cell has as many distinct compartments as
\* segments, also with unnamed or equally named segments, and both lookups
\* (segment id -> compartment, segment id -> compartment name) cover every segment.
C4_OneCompartmentPerSegment ==
    MorphologyBuilt =>
        /\ Cardinality(CellCompartments) = Len(TheSegments)
        /\ \A i \in 1..Len(TheSegments) :
              /\ DictHas(id_to_comp, TheSegments[i].id)
              /\ DictHas(nml_segs_to_moose, TheSegments[i].id)
              /\ DictHas(DictGet(seg_id_to_comp_name, TheCell.id), TheSegments[i].id)

HasParent(seg) == ~IsNone(seg.parent)
ExpectedLink(seg) ==
    [src |-> PathOf(CellPath(TheCell), CompName(seg)),
     srcField |-> IF doc.symmetric THEN "proximal" ELSE "axial",
     dst |-> PathOf(CellPath(TheCell), CompName(TheSegments[SegIndex(Val(seg.parent))])),
     dstField |-> IF doc.symmetric THEN "distal" ELSE "raxial"]

\* C5: after createMorphology the axial links are exactly one per segment that
\* has a parent, from the segment's compartment to its parent's compartment, on
\* (proximal, distal) in symmetric mode and (axial, raxial) otherwise; no link
\* is made for a root segment.
C5_AxialLinks ==
    MorphologyBuilt =>
        LET children == SelectSeq(TheSegments, HasParent)
        IN  /\ Len(msgs) = Len(children)
            /\ \A k \in 1..Len(children) : msgs[k] = ExpectedLink(children[k])

C5_Witness ==
    /\ MorphologyBuilt
    /\ ~doc.symmetric
    /\ Len(TheSegments) = 2
    /\ HasParent(TheSegments[1]) /\ ~HasParent(TheSegments[2])
    /\ Len(msgs) = 1
    /\ msgs[1].srcField = "axial" /\ msgs[1].dstField = "raxial"
    /\ msgs[1].src # msgs[1].dst

\* the ids of the groups reachable from the groups in set by inclusion steps
RECURSIVE IncludeClosure(_, _)
IncludeClosure(set, fuel) ==
    IF fuel = 0 THEN set
    ELSE IncludeClosure(
           set \cup UNION { Range(TheGroups[k].includes) :
                              k \in { j \in 1..Len(TheGroups) : TheGroups[j].id \in set } },
           fuel - 1)

\* the direct members of group G and of every group reachable from it
ReachableMembers(gid) ==
    UNION { Range(TheGroups[k].members) :
              k \in { j \in 1..Len(TheGroups) :
                        TheGroups[j].id \in IncludeClosure({ gid }, Len(TheGroups)) } }

\* C14: the list recorded for a group holds every segment that is a direct
\* member of the group or of any group reachable from it by one or more
\* inclusion steps, in whatever order the groups are declared.
C14_RecursiveInclusion ==
    MorphologyBuilt =>
        \A k \in 1..Len(TheGroups) :
            ReachableMembers(TheGroups[k].id)
               \subseteq Range(DictGet(DictGet(cell_to_sg, TheCell.id), TheGroups[k].id))

(***************************************************************************)
(* Properties of importChannelsToCell and copyChannel                      *)
(***************************************************************************)
CurDecl == ChannelDensities(CurCell)[chanIdx]
DeclKnown == DictHas(id_to_ionChannel, CurDecl.ion_channel)
DeclPassive == isPassiveChan(DictGet(id_to_ionChannel, CurDecl.ion_channel))

\* the compartments a declaration addresses, from the recorded group mapping:
\* no group = every segment, "all" = every segment of any recorded group
TargetSegs(component) ==
    LET sg == DictGet(cell_to_sg, CurCell.id)
    IN  IF IsNone(component.segment_groups)
        THEN { CurCell.morphology.segments[i].id :
                  i \in 1..Len(CurCell.morphology.segments) }
        ELSE IF Val(component.segment_groups) = "all"
        THEN UNION { Range(sg[k].val) : k \in 1..Len(sg) }
        ELSE Range(DictGet(sg, Val(component.segment_groups)))
TargetComps(component) == { DictGet(nml_segs_to_moose, id) : id \in TargetSegs(component) }

\* surface area over pi: length x diameter, or diameter^2 for length 0
AreaOverPi(comp) ==
    IF QPos(comp.length) THEN QMul(comp.length, QInt(comp.diameter))
    ELSE QInt(comp.diameter * comp.diameter)

\* C6: a declaration whose ion channel is not in the channel table is skipped
\* without an exception: the engine (every field, every element, every
\* connection) is as before, and the loop goes on with the next declaration.
C6_UnknownChannelSkipped ==
    [][ (pc = "channels" /\ ~DeclKnown) =>
            /\ err' = "none"
            /\ elements' = elements
            /\ msgs' = msgs
            /\ chanIdx' = chanIdx + 1
            /\ pc' = IF chanIdx < Len(ChannelDensities(CurCell)) THEN "channels"
                     ELSE "initmemb" ]_vars

\* an unknown channel first, and the declaration after it was applied
C6_Witness ==
    /\ pc = "initmemb"
    /\ chanIdx = 3
    /\ ChannelDensities(CurCell)[1].ion_channel = "kx"
    /\ ChannelDensities(CurCell)[2].ion_channel = "na"
    /\ lastOp = "chdens_copied"
    /\ \E p \in DOMAIN elements : elements[p].name = "dens2"
    /\ ~\E p \in DOMAIN elements : elements[p].name = "dens1"

\* C7: a declaration of a passive channel sets Rm = 1/(density x surface area)
\* and the reversal potential on every compartment of its target group, with
\* area = length x diameter x pi (diameter^2 x pi for length 0), and makes no
\* clone and no connection.
C7_PassiveChannel ==
    [][ (pc = "channels" /\ DeclKnown /\ DeclPassive) =>
            /\ err' = "none"
            /\ \A c \in TargetComps(CurDecl) :
                  LET density == SI(CurDecl.cond_density)
                  IN  /\ QEq(QMul(QMul(elements'[c].Rm, density),
                                  QMul(AreaOverPi(elements[c]), pi)),
                             QInt(1))
                      /\ QEq(elements'[c].Em, SI(CurDecl.erev))
            /\ DOMAIN elements' = DOMAIN elements
            /\ msgs' = msgs ]_vars

\* a passive density on "all": the sphere and the cylinder both got their Rm
C7_Witness ==
    /\ lastOp = "chdens_passive"
    /\ err = "none"
    /\ \E c, d \in DOMAIN elements :
          /\ QIsZero(elements[c].length) /\ elements[c].Rm.den # 0
          /\ QPos(elements[d].length) /\ elements[d].Rm.den # 0
          /\ ~QEq(elements[c].Rm, elements[d].Rm)

ClonePath(c) == PathOf(c, CurDecl.id)

InnerMsgs(ms, sub) == { k \in 1..Len(ms) : ms[k].src \in sub /\ ms[k].dst \in sub }

AllGates(chan) == chan.gates \o chan.gate_hh_rates

\* C15: whenever the steady-state-only branch runs for a gate, the alpha and
\* beta it reads were computed from that gate's own forward and reverse rate
\* functions in the same iteration: never unbound, never left from another gate.
C15_SteadyStateUsesOwnRates ==
    lastOp = "importIonChannels" =>
        /\ err # "UnboundLocalError"
        /\ LET chan == doc.ion_channels[Len(doc.ion_channels)]
               proto == PathOf(libPath, chan.id)
           IN  proto \in DOMAIN elements =>
                 \A k \in 1..Len(AllGates(chan)) :
                    k <= Len(elements[proto].gates) =>
                       LET ngate == AllGates(chan)[k]
                           tables == elements[proto].gates[k]
                       IN  /\ ~IsNone(tables.A)
                           /\ Val(tables.A).form = "A_inf_rates"
                           => /\ ~IsNone(ngate.forward_rate)
                              /\ ~IsNone(ngate.reverse_rate)
                              /\ Val(tables.A).alpha
                                   = calculateRateFn(Val(ngate.forward_rate)).table
                              /\ Val(tables.A).beta
                                   = calculateRateFn(Val(ngate.reverse_rate)).table

(***************************************************************************)
(* Properties of importSpecies and copySpecies                             *)
(***************************************************************************)
CurSpecies == SpeciesOf(CurCell)[specIdx]

\* the tables that hold a prototype for a concentration-model reference
PoolTables(ref) ==
    { t \in { proto_pools } \cup { includes[k].proto_pools : k \in 1..Len(includes) } :
        ~IsNone(ref) /\ DictHas(t, Val(ref)) }

\* the pool elements cloned into compartments (library prototypes excluded)
PoolClones(els) ==
    { p \in DOMAIN els : els[p].cls = "CaConc" /\ els[p].parent # libPath }

\* C9: for each species, the prototype is looked up in the reader's own pool
\* prototypes and then in those of every included reader; if none has it the
\* step fails with an error, otherwise a clone of the prototype is made in every
\* compartment of the species' target group.
C9_SpeciesPrototypeLookup ==
    [][ pc = "species" =>
            IF PoolTables(CurSpecies.concentration_model) = { }
            THEN err' # "none" /\ pc' = "failed"
            ELSE /\ err' = "none"
                 /\ \A c \in TargetComps(CurSpecies) :
                       PathOf(c, CurSpecies.id) \in PoolClones(elements') ]_vars

\* twice the shell thickness of pool element p is at least the diameter of c
ThickShell(p, c) ==
    2 * elements[p].thick.num >= elements[c].diameter * elements[p].thick.den

\* the prototypes a reference resolves to whose shell is too thick for some
\* compartment of the target
ThickPrototypes(species) ==
    { p \in { DictGet(t, Val(species.concentration_model)) :
                t \in PoolTables(species.concentration_model) } :
        \E c \in TargetComps(species) : ThickShell(p, c) }

\* importSpecies hands the species to copySpecies
ReachesCopySpecies(species) ==
    \/ IsNone(species.concentration_model)
    \/ species.cm_has_id /\ DictHas(proto_pools, Val(species.concentration_model))

\* the engine's elements with the shell of every pool made thin (no thickness)
ThinShells(els) ==
    [p \in DOMAIN els |->
        IF els[p].cls = "CaConc" /\ "thick" \in DOMAIN els[p]
        THEN [els[p] EXCEPT !.thick = QInt(0)]
        ELSE els[p]]

\* what the iteration of importSpecies at hand raises when the shells are thin
ThinShellOutcome ==
    importOneSpecies(CurCell, CurSpecies, DictGet(cell_to_sg, CurCell.id),
                     nml_segs_to_moose, proto_pools, includes,
                     [Now EXCEPT !.els = ThinShells(elements)]).err

PrototypesBuilt ==
    /\ \A k \in 1..Len(doc.ion_channels) :
          /\ DictHas(proto_chans, doc.ion_channels[k].id)
          /\ DictGet(proto_chans, doc.ion_channels[k].id) \in DOMAIN elements
    /\ \A k \in 1..Len(doc.concentration_models) :
          /\ DictHas(proto_pools, doc.concentration_models[k].id)
          /\ DictGet(proto_pools, doc.concentration_models[k].id) \in DOMAIN elements

\* the prototype elements of the library
PrototypeElements(els) ==
    { p \in DOMAIN els : /\ els[p].parent = libPath
                         /\ els[p].cls \in { "HHChannel", "Leakage", "CaConc" } }

\* the compartment paths of a cell's segments, from the recorded names
CompartmentsOf(cell) ==
    { PathOf(CellPath(cell),
             DictGet(DictGet(seg_id_to_comp_name, cell.id),
                     cell.morphology.segments[k].id)) :
        k \in 1..Len(cell.morphology.segments) }

GeometryBuilt(cell) ==
    /\ DictHas(proto_cells, cell.id)
    /\ DictHas(cell_to_sg, cell.id)
    /\ DictHas(seg_id_to_comp_name, cell.id)
    /\ \A c \in CompartmentsOf(cell) : c \in DOMAIN elements /\ elements[c].diameter > 0

\* the last importer of the biophysics has run on the cell
BiophysicsImported(cell) ==
    \/ IsNone(cell.biophysical_properties)
    \/ Len(Biophysics(cell).intracellular_properties.resistivities) = 0
    \/ \A c \in CompartmentsOf(cell) : elements[c].Ra # Unset

BiophysicsOps ==
    { "importCapacitances", "chdens_passive", "chdens_copied", "chdens_skipped",
      "importInitMembPotential", "importAxialResistance", "species_skipped",
      "species_copied" }

NetworkOps == { "createPopulations", "createInputs" }

InjectionLinks(ms) == { k \in 1..Len(ms) : ms[k].dstField = "injectMsg" }

\* C11: in every run of read the channel and pool prototypes of the document are
\* all built, once, before the geometry or the biophysics of any cell; a cell's
\* geometry is built before its biophysics is imported; and populations and
\* inputs are instantiated only after every cell prototype is complete and only
\* if the document has a network.
C11_ReadOrder ==
    [][ /\ lastOp' \in BiophysicsOps \cup { "createMorphology" } => PrototypesBuilt
        /\ lastOp' = "importIonChannels" =>
              /\ proto_chans = << >> /\ proto_cells = << >>
              /\ Len(proto_chans') = Len(doc.ion_channels)
              /\ Cardinality(PrototypeElements(elements')) = Len(doc.ion_channels)
        /\ lastOp' \notin { "importIonChannels", "importConcentrationModels" } =>
              /\ PrototypeElements(elements') = PrototypeElements(elements)
              /\ proto_chans' = proto_chans /\ proto_pools' = proto_pools
        /\ lastOp' = "createMorphology" =>
              /\ ~DictHas(cell_to_sg, CurCell.id)
              /\ \A p \in DOMAIN elements : elements[p].parent # CellPath(CurCell)
        /\ lastOp' \in BiophysicsOps => GeometryBuilt(CurCell)
        /\ lastOp' \in NetworkOps =>
              /\ Len(doc.networks) >= 1
              /\ \A k \in 1..Len(doc.cells) :
                    GeometryBuilt(doc.cells[k]) /\ BiophysicsImported(doc.cells[k])
        /\ lastOp' \notin NetworkOps =>
              /\ cells_in_populations' = cells_in_populations
              /\ pop_to_cell_type' = pop_to_cell_type
              /\ InjectionLinks(msgs') = InjectionLinks(msgs) ]_vars

\* a complete run: two cells, three channel prototypes, a population and an input
C11_Witness ==
    /\ pc = "done"
    /\ lastOp = "createInputs"
    /\ err = "none"
    /\ Len(doc.cells) = 2
    /\ Len(proto_chans) = 3
    /\ Len(cells_in_populations) >= 1
    /\ InjectionLinks(msgs) # { }

(***************************************************************************)
(* Properties of createPopulations and createInputs                        *)
(***************************************************************************)
Children(els, p) == { q \in DOMAIN els : els[q].parent = p }

\* the names below p, level by level down to the channel clones
NamesBelow(els, p) ==
    { << els[q].name, { els[r].name : r \in Children(els, q) } >> :
        q \in Children(els, p) }

PopPath(pop) == PathOf(libPath, pop.id)
InstancePath(pop, i) == PathOf(PopPath(pop), ToString(i))

\* C12: for every population of size N over a cell prototype, createPopulations
\* makes exactly N instances under the population, named 0..N-1, records
\* exactly the keys 0..N-1 for it, each mapped to its own new clone; every
\* instance has the compartment names (and field values) of the prototype, and
\* the prototype and everything else that existed is left as it was.
C12_Populations ==
    [][ (/\ lastOp' = "createPopulations"
         /\ Len(doc.networks) >= 1
         /\ \A k \in 1..Len(TheNetwork.populations) :
               DictHas(proto_cells, TheNetwork.populations[k].component)) =>
            /\ err' = "none"
            /\ \A p \in DOMAIN elements : elements'[p] = elements[p]
            /\ Len(cells_in_populations') = Len(TheNetwork.populations)
            /\ \A k \in 1..Len(TheNetwork.populations) :
                  LET pop == TheNetwork.populations[k]
                      proto == DictGet(proto_cells, pop.component)
                      recorded == DictGet(cells_in_populations', pop.id)
                  IN  /\ Children(elements', PopPath(pop))
                            = { InstancePath(pop, i) : i \in 0..(pop.size - 1) }
                      /\ Cardinality(Children(elements', PopPath(pop))) = pop.size
                      /\ { recorded[j].key : j \in 1..Len(recorded) } = 0..(pop.size - 1)
                      /\ Len(recorded) = pop.size
                      /\ \A j \in 1..Len(recorded) :
                            /\ recorded[j].val = InstancePath(pop, recorded[j].key)
                            /\ recorded[j].val \notin DOMAIN elements
                      /\ pop.size = 0 \/ DictGet(pop_to_cell_type', pop.id) = pop.component
                      /\ \A i \in 0..(pop.size - 1) :
                            /\ NamesBelow(elements', InstancePath(pop, i))
                                  = NamesBelow(elements, proto)
                            /\ \A c \in Children(elements, proto) :
                                  LET copy == PathOf(InstancePath(pop, i), elements[c].name)
                                  IN  elements'[copy]
                                         = [elements[c] EXCEPT !.parent = InstancePath(pop, i)]
      ]_vars

\* two populations, one of two instances of the cell with channels
C12_Witness ==
    /\ lastOp = "createPopulations"
    /\ err = "none"
    /\ Len(cells_in_populations) = 2
    /\ \E k \in 1..Len(TheNetwork.populations) :
          LET pop == TheNetwork.populations[k]
          IN  /\ pop.size = 2
              /\ pop.component = "cellA"
              /\ Len(DictGet(cells_in_populations, pop.id)) = 2
              /\ PathOf(PathOf(InstancePath(pop, 1), "seg0"), "nadens") \in DOMAIN elements

\* the explicit inputs of the network being read
ExplicitInputs == TheNetwork.explicit_inputs

\* the population a target names, if the network declares it
NamedPops(target) ==
    { k \in 1..Len(TheNetwork.populations) :
        TheNetwork.populations[k].id = target.population }

\* the segments of the population's cell type that the target names: the one
\* whose id reads as the target's segment text, or segment 0 without one
NamedSegs(target, cell) ==
    { j \in 1..Len(cell.morphology.segments) :
        ToString(cell.morphology.segments[j].id)
           = (IF IsNone(target.segment) THEN "0" ELSE Val(target.segment)) }

CellNamed(id) == doc.cells[CHOOSE k \in 1..Len(doc.cells) : doc.cells[k].id = id]

\* the target names an existing population, instance and segment
Resolvable(target) ==
    /\ NamedPops(target) # { }
    /\ LET pop == TheNetwork.populations[CHOOSE k \in NamedPops(target) : TRUE]
       IN  /\ target.index \in { ToString(i) : i \in 0..(pop.size - 1) }
           /\ NamedSegs(target, CellNamed(pop.component)) # { }

\* the connection the input must get: from the input source to the compartment
\* recorded for the named segment, in the named instance
ExpectedInjection(el) ==
    LET pop == TheNetwork.populations[CHOOSE k \in NamedPops(el.target) : TRUE]
        cell == CellNamed(pop.component)
        seg == cell.morphology.segments[CHOOSE j \in NamedSegs(el.target, cell) : TRUE]
    IN  [src |-> PathOf(PathOf(libPath, "inputs"), el.input), srcField |-> "output",
         dst |-> PathOf(PathOf(PopPath(pop), el.target.index),
                        DictGet(DictGet(seg_id_to_comp_name, cell.id), seg.id)),
         dstField |-> "injectMsg"]

\* the first explicit input whose target cannot be resolved
RECURSIVE FirstUnresolvable(_)
FirstUnresolvable(k) ==
    IF k > Len(ExplicitInputs) \/ ~Resolvable(ExplicitInputs[k].target) THEN k
    ELSE FirstUnresolvable(k + 1)

\* C13: createInputs connects every explicit input with a resolvable target
\* (existing population, instance index and, if given, segment; segment 0
\* otherwise) from the input's output terminal to the injection terminal of the
\* compartment recorded for that segment in that instance; at an input whose
\* population or segment is not recorded it fails with no connection for it.
C13_ExplicitInputs ==
    [][ (lastOp' = "createInputs" /\ Len(doc.networks) >= 1) =>
            LET bad == FirstUnresolvable(1)
            IN  /\ \A k \in 1..(bad - 1) :
                      /\ Len(msgs') >= Len(msgs) + k
                      /\ msgs'[Len(msgs) + k] = ExpectedInjection(ExplicitInputs[k])
                /\ bad <= Len(ExplicitInputs) =>
                      /\ err' # "none"
                      /\ Len(msgs') = Len(msgs) + bad - 1
                /\ bad > Len(ExplicitInputs) => err' = "none"
                /\ SubSeq(msgs', 1, Len(msgs)) = msgs ]_vars

(***************************************************************************)
(* Properties of the viewer refresh loop                                   *)
(***************************************************************************)
\* a callback invocation of the widget returned a false value and the timer
\* ran start_cycle of the widget again, with no set_callback and no call of
\* start_cycle by the user in between
RunsAfterFalse(widget) ==
    \E i \in 1..Len(widget.returns) - 1 :
        ~widget.returns[i] /\ widget.callers[i + 1] = "timeout"

\* C16: after set_callback, every start_cycle invokes the callback and then
\* repaints, and once the callback has returned a false value the widget's
\* start_cycle does not run again until set_callback is called again, also
\* after the timer was started and with several widgets on the shared timer.
C16_StopsAfterFalse ==
    \A w \in 1..Len(widgets) :
        /\ widgets[w].updates = widgets[w].cycles
        /\ ~RunsAfterFalse(widgets[w])

====
